---------------------------- MODULE Spec2Model ----------------------------
(***************************************************************************)
(* Dictat: the dictation / transcription workflow of the API endpoints in  *)
(* app/api/v1/endpoints/dictations.py and transcriptions.py, over the      *)
(* relational store of app/models.  Every endpoint is a handler that reads *)
(* rows, checks them and commits; the handlers whose read and commit are   *)
(* separated here (claim, delete, create transcription) are the ones whose *)
(* interleavings are examined.                                             *)
(***************************************************************************)
EXTENDS Integers, Sequences, FiniteSets, TLC

VARIABLES
    dictations,      \* table "dictations": row id -> row (ids are 1..Len)
    transcriptions,  \* table "transcriptions": row id -> row
    sessions,        \* requests between their SELECT and their COMMIT
    resp,            \* the HTTP response of the request that finished last
    tokens,          \* the JWTs the service has issued
    audit_logs,      \* rows of table "audit_logs"
    hashes           \* the calls of hash_password: password and hash

vars == <<dictations, transcriptions, sessions, resp, tokens, audit_logs,
         hashes>>

---------------------------------------------------------------------------
(* Bounds of the exploration *)

MaxDictations == 1

MaxSessions == 2

\* rows of "dictations" when the work queue is queried
MaxQueueRows == 2

\* the latest created_at of a row when the work queue is queried
MaxClock == 2

\* tokens issued in one behaviour
MaxTokens == 2

\* the size of a stored audio file, in bytes
MaxFileSize == 3

\* settings.CHUNK_SIZE, in bytes
ChunkSize == 2

\* settings.MAX_UPLOAD_SIZE, in bytes
MaxUploadSize == 3

\* calls of hash_password in one behaviour
MaxHashes == 2

---------------------------------------------------------------------------
(* Values *)

\* a NULL column (ids start at 1, a set timestamp is utcnow)
NULL == 0

\* datetime.utcnow(): the one value a set timestamp takes
utcnow == 1

\* Python None in an Optional[str] field
None == "<None>"

\* rows of table "users": two doctors, two secretaries, one admin
Doctors == {1, 2}

Secretaries == {3, 4}

Admins == {5}

Users == Doctors \cup Secretaries \cup Admins

\* the users who upload: one of each role (the doctors are interchangeable)
Uploaders == {1, 3, 5}

UserRole(u) ==
    IF u \in Doctors THEN "doctor"
    ELSE IF u \in Secretaries THEN "secretary"
    ELSE "admin"

DictationStatus ==
    {"pending", "assigned", "in_progress", "completed", "reviewed", "rejected"}

DictationPriority == {"low", "normal", "high", "urgent"}

TranscriptionStatus == {"draft", "submitted", "approved", "rejected", "revised"}

\* HTTP status codes of the responses
HTTP_200_OK == 200

HTTP_201_CREATED == 201

HTTP_400_BAD_REQUEST == 400

HTTP_401_UNAUTHORIZED == 401

HTTP_403_FORBIDDEN == 403

HTTP_404_NOT_FOUND == 404

HTTP_409_CONFLICT == 409

HTTP_422_UNPROCESSABLE_ENTITY == 422

HTTP_500_INTERNAL_SERVER_ERROR == 500

\* no response yet: the request has read and waits for its COMMIT
IN_FLIGHT == 0

---------------------------------------------------------------------------
(* Strings with content: sequences of one-character strings *)

Whitespace == {" ", "\t", "\n"}

RECURSIVE lstrip(_)
lstrip(s) ==
    IF s = <<>> THEN <<>>
    ELSE IF Head(s) \in Whitespace THEN lstrip(Tail(s))
    ELSE s

RECURSIVE rstrip(_)
rstrip(s) ==
    IF s = <<>> THEN <<>>
    ELSE IF s[Len(s)] \in Whitespace THEN rstrip(SubSeq(s, 1, Len(s) - 1))
    ELSE s

\* str.strip()
strip(s) == rstrip(lstrip(s))

\* request bodies' content values: empty, blank, padded text
Contents == { <<>>, <<" ", "\n">>, <<" ", "a", "\n">> }

---------------------------------------------------------------------------
(* Rows, sessions, responses *)

\* the response of a request: the handler and its status code; rival is set
\* on a successful claim that raced another (see claim_dictation_commit)
Response(op, code) == [op |-> op, code |-> code, rival |-> NULL]

\* a session that holds no request
Idle ==
    [op |-> "idle", user |-> NULL, id |-> NULL, loaded |-> NULL,
     content |-> <<>>, rival |-> NULL]

Slots == 1..MaxSessions

\* ids a request may name: a row's, or one no row has yet
RequestIds == 1..MaxDictations

HasDictation(d) == d \in 1..Len(dictations)

HasTranscription(t) == t \in 1..Len(transcriptions)

\* `not dictation or dictation.deleted_at is not None`
DictationMissing(d) ==
    \/ ~HasDictation(d)
    \/ dictations[d].deleted_at # NULL

\* rows of "transcriptions" whose dictation_id is d
TranscriptionsOf(d) ==
    {t \in 1..Len(transcriptions) : transcriptions[t].dictation_id = d}

\* require_role(*allowed_roles): the caller's role is one of the allowed
require_role(u, allowed_roles) == UserRole(u) \in allowed_roles

Init ==
    /\ dictations = <<>>
    /\ transcriptions = <<>>
    /\ sessions = [s \in Slots |-> Idle]
    /\ resp = Response("none", IN_FLIGHT)
    /\ tokens = {}
    /\ audit_logs = <<>>
    /\ hashes = <<>>

---------------------------------------------------------------------------
(* POST /dictations *)

create_dictation(u, priority, saved) ==
    /\ Len(dictations) < MaxDictations
    /\ IF ~require_role(u, {"doctor", "admin"})
       THEN /\ resp' = Response("create_dictation", HTTP_403_FORBIDDEN)
            /\ UNCHANGED <<dictations>>
       ELSE IF priority \notin DictationPriority
       THEN /\ resp' = Response("create_dictation", HTTP_400_BAD_REQUEST)
            /\ UNCHANGED <<dictations>>
       ELSE IF ~saved
       THEN \* storage_service.save_audio_file raised FileUploadError
            /\ resp' = Response("create_dictation", HTTP_400_BAD_REQUEST)
            /\ UNCHANGED <<dictations>>
       ELSE /\ dictations' = Append(dictations,
                  [doctor_id |-> u, secretary_id |-> NULL,
                   status |-> "pending", priority |-> priority,
                   title |-> None, patient_reference |-> None, notes |-> None,
                   created_at |-> utcnow, claimed_at |-> NULL,
                   completed_at |-> NULL, deleted_at |-> NULL])
            /\ resp' = Response("create_dictation", HTTP_201_CREATED)
    /\ UNCHANGED <<transcriptions, sessions>>
    /\ UNCHANGED <<tokens, audit_logs, hashes>>

---------------------------------------------------------------------------
(* Authorization decision point: services/opa.py *)

\* what the POST to the policy evaluator yields: its verdict, or the
\* exception raised by the client, raise_for_status or response.json()
OpaReplies ==
    {"allow", "deny", "ConnectError", "ConnectTimeout", "ReadTimeout",
     "HTTPStatusError", "JSONDecodeError"}

\* the exceptions that are httpx.HTTPError: the transport errors, the
\* timeouts among them, and the error status of raise_for_status
HTTPError == {"ConnectError", "ConnectTimeout", "ReadTimeout", "HTTPStatusError"}

\* one reply of each kind, for the handlers that ask for a permission
OpaOutcomes == {"allow", "deny", "ConnectError", "JSONDecodeError"}

\* fallback_authorization with the test of the owner left out
fallback_authorization_any_owner(user_role, action, resource_type, user_id, resource_owner_id) ==
    IF user_role = "admin" THEN TRUE
    ELSE IF /\ resource_type = "dictation"
            /\ action \in {"create", "read", "update", "delete"}
            /\ user_role = "doctor"
    THEN TRUE
    ELSE IF /\ resource_type = "dictation"
            /\ action \in {"read", "claim"}
            /\ user_role = "secretary"
    THEN TRUE
    ELSE IF /\ resource_type = "transcription"
            /\ action \in {"create", "read", "update", "submit"}
            /\ user_role = "secretary"
    THEN TRUE
    ELSE IF /\ resource_type = "transcription"
            /\ action \in {"read", "approve", "reject"}
            /\ user_role = "doctor"
    THEN TRUE
    ELSE FALSE

\* OPAClient._fallback_authorization
fallback_authorization(user_role, action, resource_type, user_id, resource_owner_id) ==
    IF user_role = "admin" THEN TRUE
    ELSE IF /\ resource_type = "dictation"
            /\ action \in {"create", "read", "update", "delete"}
            /\ user_role = "doctor"
    THEN resource_owner_id = NULL \/ resource_owner_id = user_id
    ELSE IF /\ resource_type = "dictation"
            /\ action \in {"read", "claim"}
            /\ user_role = "secretary"
    THEN TRUE
    ELSE IF /\ resource_type = "transcription"
            /\ action \in {"create", "read", "update", "submit"}
            /\ user_role = "secretary"
    THEN resource_owner_id = NULL \/ resource_owner_id = user_id
    ELSE IF /\ resource_type = "transcription"
            /\ action \in {"read", "approve", "reject"}
            /\ user_role = "doctor"
    THEN TRUE
    ELSE FALSE

\* evaluate_policy with the fallback on a refused connection only
evaluate_policy_connect_only(opa, user_id, user_role, action, resource_type, resource_owner_id) ==
    IF opa = "allow" THEN "allowed"
    ELSE IF opa = "deny" THEN "denied"
    ELSE IF opa = "ConnectError"
    THEN IF fallback_authorization(user_role, action, resource_type,
                                   user_id, resource_owner_id)
         THEN "allowed" ELSE "denied"
    ELSE "raised"

\* OPAClient.evaluate_policy: "allowed", "denied" or "raised" (OPAError)
evaluate_policy(opa, user_id, user_role, action, resource_type, resource_owner_id) ==
    IF opa = "allow" THEN "allowed"
    ELSE IF opa = "deny" THEN "denied"
    ELSE IF opa \in HTTPError
    THEN IF fallback_authorization(user_role, action, resource_type,
                                   user_id, resource_owner_id)
         THEN "allowed" ELSE "denied"
    ELSE "raised"

\* the query and the answer of a call of check_permission
PermissionResponse(opa, u, action, resource_type, resource_owner_id, result) ==
    [op |-> "check_permission", code |-> NULL, rival |-> NULL, opa |-> opa,
     user |-> u, action |-> action, resource_type |-> resource_type,
     owner |-> resource_owner_id, result |-> result]

\* check_permission: the call of opa_client.evaluate_policy
check_permission(opa, u, action, resource_type, resource_owner_id) ==
    /\ resp' = PermissionResponse(opa, u, action, resource_type,
                  resource_owner_id,
                  evaluate_policy(opa, u, UserRole(u), action, resource_type,
                                  resource_owner_id))
    /\ UNCHANGED <<dictations, transcriptions, sessions>>
    /\ UNCHANGED <<tokens, audit_logs, hashes>>

\* check_resource_permission: the status it ends the request with, or 200
check_resource_permission(opa, u, action, resource_type, resource_owner_id) ==
    LET verdict == evaluate_policy(opa, u, UserRole(u), action, resource_type,
                                   resource_owner_id)
    IN  IF verdict = "raised" THEN HTTP_500_INTERNAL_SERVER_ERROR
        ELSE IF verdict = "denied" THEN HTTP_403_FORBIDDEN
        ELSE HTTP_200_OK

---------------------------------------------------------------------------
(* Tokens: core/security.py and api/v1/endpoints/auth.py *)

\* a JWT reduced to the claims the service reads: its type and its subject
create_access_token(u) == [type |-> "access", sub |-> u]

create_refresh_token(u) == [type |-> "refresh", sub |-> u]

\* jwt.decode: the payload, or the payload of nothing (Python None) when the
\* signature is not the service's or the expiry has passed
verify_token(token, signed, expired) ==
    IF signed /\ ~expired THEN token ELSE [type |-> None, sub |-> NULL]

\* the response of an endpoint that took a token: the token as presented
\* and the user it was accepted for
TokenResponse(op, code, token, signed, expired, user) ==
    [op |-> op, code |-> code, rival |-> NULL, token |-> token,
     signed |-> signed, expired |-> expired, user |-> user]

\* POST /auth/login; the credentials are right or not, the account is active
\* or not
login(u, password_ok, is_active) ==
    /\ IF ~password_ok
       THEN /\ resp' = Response("login", HTTP_401_UNAUTHORIZED)
            /\ UNCHANGED tokens
       ELSE IF ~is_active
       THEN /\ resp' = Response("login", HTTP_403_FORBIDDEN)
            /\ UNCHANGED tokens
       ELSE /\ tokens' = tokens \cup {create_access_token(u),
                                      create_refresh_token(u)}
            /\ resp' = Response("login", HTTP_200_OK)
    /\ UNCHANGED <<dictations, transcriptions, sessions, audit_logs, hashes>>

\* the status the checks of refresh_access_token end the request with
refresh_check(token, signed, expired, is_active) ==
    IF verify_token(token, signed, expired).type = None
    THEN HTTP_401_UNAUTHORIZED
    ELSE IF verify_token(token, signed, expired).type # "refresh"
    THEN HTTP_401_UNAUTHORIZED
    ELSE IF verify_token(token, signed, expired).sub \notin Users
    THEN HTTP_401_UNAUTHORIZED
    ELSE IF ~is_active THEN HTTP_403_FORBIDDEN
    ELSE HTTP_200_OK

\* POST /auth/refresh
refresh_access_token(token, signed, expired, is_active) ==
    /\ IF refresh_check(token, signed, expired, is_active) = HTTP_200_OK
       THEN /\ tokens' = tokens \cup {create_access_token(token.sub)}
            /\ resp' = TokenResponse("refresh_access_token", HTTP_200_OK,
                          token, signed, expired, token.sub)
       ELSE /\ resp' = TokenResponse("refresh_access_token",
                          refresh_check(token, signed, expired, is_active),
                          token, signed, expired, NULL)
            /\ UNCHANGED tokens
    /\ UNCHANGED <<dictations, transcriptions, sessions, audit_logs, hashes>>

\* get_current_user_check with the test of the token's type left out
get_current_user_check_any_type(token, signed, expired, is_active) ==
    IF verify_token(token, signed, expired).type = None
    THEN HTTP_401_UNAUTHORIZED
    ELSE IF verify_token(token, signed, expired).sub \notin Users
    THEN HTTP_401_UNAUTHORIZED
    ELSE IF ~is_active THEN HTTP_403_FORBIDDEN
    ELSE HTTP_200_OK

\* the status the checks of get_current_user end the request with
get_current_user_check(token, signed, expired, is_active) ==
    IF verify_token(token, signed, expired).type = None
    THEN HTTP_401_UNAUTHORIZED
    ELSE IF verify_token(token, signed, expired).type # "access"
    THEN HTTP_401_UNAUTHORIZED
    ELSE IF verify_token(token, signed, expired).sub \notin Users
    THEN HTTP_401_UNAUTHORIZED
    ELSE IF ~is_active THEN HTTP_403_FORBIDDEN
    ELSE HTTP_200_OK

\* the dependency of every protected route
get_current_user(token, signed, expired, is_active) ==
    /\ resp' = TokenResponse("get_current_user",
                  get_current_user_check(token, signed, expired, is_active),
                  token, signed, expired,
                  IF get_current_user_check(token, signed, expired,
                                            is_active) = HTTP_200_OK
                  THEN token.sub ELSE NULL)
    /\ UNCHANGED <<dictations, transcriptions, sessions, tokens, audit_logs,
                   hashes>>

---------------------------------------------------------------------------
(* GET /dictations/queue *)

\* the position by name, the order of an enum stored as a string
PriorityRankByName(p) ==
    CASE p = "high" -> 1 [] p = "low" -> 2 [] p = "normal" -> 3
      [] p = "urgent" -> 4

\* the position of a priority in the enum type dictationpriority, which is
\* the order ORDER BY gives an enum column
PriorityRank(p) ==
    CASE p = "low" -> 1 [] p = "normal" -> 2 [] p = "high" -> 3
      [] p = "urgent" -> 4

\* the WHERE clauses of the query; priority_filter None or "" adds none
queue_rows(priority_filter) ==
    {d \in 1..Len(dictations) :
        /\ dictations[d].deleted_at = NULL
        /\ dictations[d].status \in {"pending", "assigned"}
        /\ dictations[d].secretary_id = NULL
        /\ priority_filter \in {None, ""}
              \/ dictations[d].priority = priority_filter}

\* row a comes before row b under
\* ORDER BY priority DESC, created_at ASC; neither comes first when both
\* columns are equal
queue_before(a, b) ==
    \/ PriorityRank(dictations[a].priority)
          > PriorityRank(dictations[b].priority)
    \/ /\ dictations[a].priority = dictations[b].priority
       /\ dictations[a].created_at < dictations[b].created_at

\* the orders in which the query may return the rows S
queue_orders(S) ==
    {q \in [1..Cardinality(S) -> S] :
        /\ \A i, j \in DOMAIN q : i # j => q[i] # q[j]
        /\ \A i, j \in DOMAIN q : i < j => ~queue_before(q[j], q[i])}

\* OFFSET skip LIMIT limit
queue_page(q, skip, limit) ==
    [i \in 1..(IF Len(q) - skip < limit
               THEN (IF Len(q) > skip THEN Len(q) - skip ELSE 0)
               ELSE limit) |-> q[skip + i]]

\* the response of the work queue: the query and the page of row ids
QueueResponse(code, skip, limit, priority_filter, items, total) ==
    [op |-> "get_work_queue", code |-> code, rival |-> NULL, skip |-> skip,
     limit |-> limit, priority |-> priority_filter, items |-> items,
     total |-> total]

get_work_queue(u, skip, limit, priority_filter) ==
    /\ IF ~require_role(u, {"secretary"})
       THEN resp' = QueueResponse(HTTP_403_FORBIDDEN, skip, limit,
                                  priority_filter, <<>>, 0)
       ELSE IF priority_filter \notin {None, ""} \cup DictationPriority
       THEN resp' = QueueResponse(HTTP_400_BAD_REQUEST, skip, limit,
                                  priority_filter, <<>>, 0)
       ELSE \E q \in queue_orders(queue_rows(priority_filter)) :
               resp' = QueueResponse(HTTP_200_OK, skip, limit,
                          priority_filter, queue_page(q, skip, limit),
                          Cardinality(queue_rows(priority_filter)))
    /\ UNCHANGED <<dictations, transcriptions, sessions>>
    /\ UNCHANGED <<tokens, audit_logs, hashes>>

---------------------------------------------------------------------------
(* POST /dictations/{id}/claim *)

\* claim_check with the test of the holder left out
claim_check_any_holder(u, d) ==
    IF ~require_role(u, {"secretary"}) THEN HTTP_403_FORBIDDEN
    ELSE IF DictationMissing(d) THEN HTTP_404_NOT_FOUND
    ELSE IF dictations[d].status \notin {"pending", "assigned"}
    THEN HTTP_409_CONFLICT
    ELSE HTTP_200_OK

\* the status the checks of claim_dictation end the request with, or 200
claim_check(u, d) ==
    IF ~require_role(u, {"secretary"}) THEN HTTP_403_FORBIDDEN
    ELSE IF DictationMissing(d) THEN HTTP_404_NOT_FOUND
    ELSE IF dictations[d].status \notin {"pending", "assigned"}
    THEN HTTP_409_CONFLICT
    ELSE IF /\ dictations[d].secretary_id # NULL
            /\ dictations[d].secretary_id # u
    THEN HTTP_409_CONFLICT
    ELSE HTTP_200_OK

\* claim_update with the assignment of the status left out
claim_update_keeps_status(row, u, loaded) ==
    [row EXCEPT
        !.secretary_id = IF loaded # u THEN u ELSE @,
        !.claimed_at = utcnow]

\* the UPDATE of the flush writes the columns whose value the handler
\* changed: status and claimed_at always, secretary_id unless the row was
\* loaded with secretary_id = u already
claim_update(row, u, loaded) ==
    [row EXCEPT
        !.secretary_id = IF loaded # u THEN u ELSE @,
        !.status = "in_progress",
        !.claimed_at = utcnow]

\* the handler, served with no other request in between
claim_dictation(u, d) ==
    /\ resp' = Response("claim_dictation", claim_check(u, d))
    /\ IF claim_check(u, d) = HTTP_200_OK
       THEN dictations' = [dictations EXCEPT ![d] =
               claim_update(@, u, dictations[d].secretary_id)]
       ELSE UNCHANGED dictations
    /\ UNCHANGED <<transcriptions, sessions>>
    /\ UNCHANGED <<tokens, audit_logs, hashes>>

\* the handler up to its COMMIT: SELECT and checks; the row is changed in
\* the session only
claim_dictation_read(s, u, d) ==
    /\ sessions[s].op = "idle"
    /\ IF claim_check(u, d) # HTTP_200_OK
       THEN /\ resp' = Response("claim_dictation", claim_check(u, d))
            /\ UNCHANGED sessions
       ELSE /\ sessions' = [sessions EXCEPT ![s] =
                  [op |-> "claim_dictation", user |-> u, id |-> d,
                   loaded |-> dictations[d].secretary_id,
                   content |-> <<>>, rival |-> NULL]]
            /\ resp' = Response("claim_dictation", IN_FLIGHT)
    /\ UNCHANGED <<dictations, transcriptions>>
    /\ UNCHANGED <<tokens, audit_logs, hashes>>

\* COMMIT; a request of another secretary still in flight on the same
\* dictation learns (in its field rival) that this claim succeeded
claim_dictation_commit(s) ==
    LET r == sessions[s] IN
    /\ r.op = "claim_dictation"
    /\ dictations' = [dictations EXCEPT ![r.id] =
          claim_update(@, r.user, r.loaded)]
    /\ sessions' = [t \in Slots |->
          IF t = s THEN Idle
          ELSE IF /\ sessions[t].op = "claim_dictation"
                  /\ sessions[t].id = r.id
                  /\ sessions[t].user # r.user
               THEN [sessions[t] EXCEPT !.rival = r.user]
               ELSE sessions[t]]
    /\ resp' = [Response("claim_dictation", HTTP_200_OK)
                  EXCEPT !.rival = r.rival]
    /\ UNCHANGED transcriptions
    /\ UNCHANGED <<tokens, audit_logs, hashes>>

---------------------------------------------------------------------------
(* POST /dictations/{id}/unclaim *)

unclaim_check(u, d) ==
    IF ~require_role(u, {"secretary"}) THEN HTTP_403_FORBIDDEN
    ELSE IF DictationMissing(d) THEN HTTP_404_NOT_FOUND
    ELSE IF dictations[d].secretary_id # u /\ UserRole(u) # "admin"
    THEN HTTP_403_FORBIDDEN
    ELSE IF dictations[d].secretary_id = NULL THEN HTTP_400_BAD_REQUEST
    ELSE HTTP_200_OK

unclaim_dictation(u, d) ==
    /\ resp' = Response("unclaim_dictation", unclaim_check(u, d))
    /\ IF unclaim_check(u, d) = HTTP_200_OK
       THEN dictations' = [dictations EXCEPT ![d] =
               [@ EXCEPT !.secretary_id = NULL, !.status = "pending",
                         !.claimed_at = NULL]]
       ELSE UNCHANGED dictations
    /\ UNCHANGED <<transcriptions, sessions>>
    /\ UNCHANGED <<tokens, audit_logs, hashes>>

---------------------------------------------------------------------------
(* PATCH /dictations/{id} *)

\* request bodies (DictationUpdate), each holding the fields that were set
UpdateBodies == { [status |-> "pending"], [status |-> "assigned"] }

\* request bodies with the other fields of DictationUpdate; a field sent as
\* null is None (title is nullable, priority and status are not)
DictationUpdates ==
    { [title |-> "A"],
      [title |-> None],
      [status |-> "completed"],
      [status |-> None],
      [priority |-> None],
      [title |-> "A", status |-> "completed"],
      [priority |-> "urgent", notes |-> "N"],
      [patient_reference |-> "P"],
      [notes |-> "N", status |-> "in_progress"],
      [patient_reference |-> "P", status |-> "assigned"],
      [title |-> "A", patient_reference |-> "P", notes |-> "N",
       priority |-> "urgent", status |-> "reviewed"] }

\* apply_update with the status applied for every role
apply_update_any_role(row, body, role) ==
    [f \in DOMAIN row |-> IF f \in DOMAIN body THEN body[f] ELSE row[f]]

\* the loop over update_data.model_dump(exclude_unset=True)
apply_update(row, body, role) ==
    [f \in DOMAIN row |->
        IF f \in DOMAIN body /\ ~(f = "status" /\ role # "admin")
        THEN body[f] ELSE row[f]]

\* columns status and priority, nullable=False: the UPDATE that sets one of
\* them NULL raises IntegrityError
not_null_violated(row) == row.status = None \/ row.priority = None

\* the status the request ends with
update_check(u, d, body, opa) ==
    IF DictationMissing(d) THEN HTTP_404_NOT_FOUND
    ELSE IF check_resource_permission(opa, u, "update", "dictation",
                                      dictations[d].doctor_id) # HTTP_200_OK
    THEN check_resource_permission(opa, u, "update", "dictation",
                                   dictations[d].doctor_id)
    ELSE IF not_null_violated(apply_update(dictations[d], body, UserRole(u)))
    THEN HTTP_500_INTERNAL_SERVER_ERROR
    ELSE HTTP_200_OK

update_dictation(u, d, body, opa) ==
    /\ resp' = Response("update_dictation", update_check(u, d, body, opa))
    /\ IF update_check(u, d, body, opa) = HTTP_200_OK
       THEN dictations' = [dictations EXCEPT ![d] =
               apply_update(@, body, UserRole(u))]
       ELSE UNCHANGED dictations
    /\ UNCHANGED <<transcriptions, sessions>>
    /\ UNCHANGED <<tokens, audit_logs, hashes>>

---------------------------------------------------------------------------
(* DELETE /dictations/{id} *)

\* delete_check with the test of the status left out
delete_check_any_status(u, d, opa) ==
    IF DictationMissing(d) THEN HTTP_404_NOT_FOUND
    ELSE check_resource_permission(opa, u, "delete", "dictation",
                                   dictations[d].doctor_id)

delete_check(u, d, opa) ==
    IF DictationMissing(d) THEN HTTP_404_NOT_FOUND
    ELSE IF check_resource_permission(opa, u, "delete", "dictation",
                                      dictations[d].doctor_id) # HTTP_200_OK
    THEN check_resource_permission(opa, u, "delete", "dictation",
                                   dictations[d].doctor_id)
    ELSE IF dictations[d].status = "in_progress" THEN HTTP_409_CONFLICT
    ELSE HTTP_200_OK

\* the UPDATE of the flush writes deleted_at alone
delete_update(row) == [row EXCEPT !.deleted_at = utcnow]

\* the handler, served with no other request in between
delete_dictation(u, d, opa) ==
    /\ resp' = Response("delete_dictation", delete_check(u, d, opa))
    /\ IF delete_check(u, d, opa) = HTTP_200_OK
       THEN dictations' = [dictations EXCEPT ![d] = delete_update(@)]
       ELSE UNCHANGED dictations
    /\ UNCHANGED <<transcriptions, sessions>>
    /\ UNCHANGED <<tokens, audit_logs, hashes>>

delete_dictation_read(s, u, d, opa) ==
    /\ sessions[s].op = "idle"
    /\ IF delete_check(u, d, opa) # HTTP_200_OK
       THEN /\ resp' = Response("delete_dictation", delete_check(u, d, opa))
            /\ UNCHANGED sessions
       ELSE /\ sessions' = [sessions EXCEPT ![s] =
                  [op |-> "delete_dictation", user |-> u, id |-> d,
                   loaded |-> NULL, content |-> <<>>, rival |-> NULL]]
            /\ resp' = Response("delete_dictation", IN_FLIGHT)
    /\ UNCHANGED <<dictations, transcriptions>>
    /\ UNCHANGED <<tokens, audit_logs, hashes>>

delete_dictation_commit(s) ==
    LET r == sessions[s] IN
    /\ r.op = "delete_dictation"
    /\ dictations' = [dictations EXCEPT ![r.id] = delete_update(@)]
    /\ sessions' = [sessions EXCEPT ![s] = Idle]
    /\ resp' = Response("delete_dictation", HTTP_200_OK)
    /\ UNCHANGED transcriptions
    /\ UNCHANGED <<tokens, audit_logs, hashes>>

---------------------------------------------------------------------------
(* POST /transcriptions *)

\* TranscriptionBase.content: Field(..., min_length=1)
content_valid(content) == Len(content) >= 1

\* create_transcription_check with the test of the holder left out
create_transcription_check_any_secretary(u, d, content) ==
    IF ~require_role(u, {"secretary"}) THEN HTTP_403_FORBIDDEN
    ELSE IF ~content_valid(content) THEN HTTP_422_UNPROCESSABLE_ENTITY
    ELSE IF DictationMissing(d) THEN HTTP_404_NOT_FOUND
    ELSE IF TranscriptionsOf(d) # {} THEN HTTP_409_CONFLICT
    ELSE HTTP_200_OK

create_transcription_check(u, d, content) ==
    IF ~require_role(u, {"secretary"}) THEN HTTP_403_FORBIDDEN
    ELSE IF ~content_valid(content) THEN HTTP_422_UNPROCESSABLE_ENTITY
    ELSE IF DictationMissing(d) THEN HTTP_404_NOT_FOUND
    ELSE IF dictations[d].secretary_id # u THEN HTTP_400_BAD_REQUEST
    ELSE IF TranscriptionsOf(d) # {} THEN HTTP_409_CONFLICT
    ELSE HTTP_200_OK

\* the column without its unique index
unique_dictation_id_unchecked(d) == FALSE

\* Column dictation_id, unique=True (index ix_transcriptions_dictation_id):
\* the INSERT of a second row for dictation d raises IntegrityError
unique_dictation_id_violated(d) == TranscriptionsOf(d) # {}

\* the table holds at most one row more than there are dictations
MaxTranscriptions == MaxDictations + 1

\* db.add(transcription); db.commit()
insert_transcription(u, d, content) ==
    IF unique_dictation_id_violated(d)
    THEN /\ resp' = Response("create_transcription",
                             HTTP_500_INTERNAL_SERVER_ERROR)
         /\ UNCHANGED transcriptions
    ELSE /\ Len(transcriptions) < MaxTranscriptions
         /\ transcriptions' = Append(transcriptions,
               [dictation_id |-> d, secretary_id |-> u,
                reviewer_id |-> NULL, content |-> content, version |-> 1,
                status |-> "draft", review_notes |-> None,
                rejection_reason |-> None, last_autosave_at |-> NULL,
                submitted_at |-> NULL, reviewed_at |-> NULL])
         /\ resp' = Response("create_transcription", HTTP_201_CREATED)

\* the handler, served with no other request in between
create_transcription(u, d, content) ==
    /\ IF create_transcription_check(u, d, content) # HTTP_200_OK
       THEN /\ resp' = Response("create_transcription",
                                create_transcription_check(u, d, content))
            /\ UNCHANGED transcriptions
       ELSE insert_transcription(u, d, content)
    /\ UNCHANGED <<dictations, sessions>>
    /\ UNCHANGED <<tokens, audit_logs, hashes>>

create_transcription_read(s, u, d, content) ==
    /\ sessions[s].op = "idle"
    /\ IF create_transcription_check(u, d, content) # HTTP_200_OK
       THEN /\ resp' = Response("create_transcription",
                                create_transcription_check(u, d, content))
            /\ UNCHANGED sessions
       ELSE /\ sessions' = [sessions EXCEPT ![s] =
                  [op |-> "create_transcription", user |-> u, id |-> d,
                   loaded |-> NULL, content |-> content, rival |-> NULL]]
            /\ resp' = Response("create_transcription", IN_FLIGHT)
    /\ UNCHANGED <<dictations, transcriptions>>
    /\ UNCHANGED <<tokens, audit_logs, hashes>>

create_transcription_commit(s) ==
    LET r == sessions[s] IN
    /\ r.op = "create_transcription"
    /\ sessions' = [sessions EXCEPT ![s] = Idle]
    /\ insert_transcription(r.user, r.id, r.content)
    /\ UNCHANGED dictations
    /\ UNCHANGED <<tokens, audit_logs, hashes>>

---------------------------------------------------------------------------
(* PATCH /transcriptions/{id} *)

\* update_transcription_check with the editable statuses draft and revised
update_transcription_check_draft_revised(u, t, content) ==
    IF ~require_role(u, {"secretary"}) THEN HTTP_403_FORBIDDEN
    ELSE IF ~content_valid(content) THEN HTTP_422_UNPROCESSABLE_ENTITY
    ELSE IF ~HasTranscription(t) THEN HTTP_404_NOT_FOUND
    ELSE IF transcriptions[t].secretary_id # u THEN HTTP_403_FORBIDDEN
    ELSE IF transcriptions[t].status \notin {"draft", "revised"}
    THEN HTTP_409_CONFLICT
    ELSE HTTP_200_OK

update_transcription_check(u, t, content) ==
    IF ~require_role(u, {"secretary"}) THEN HTTP_403_FORBIDDEN
    ELSE IF ~content_valid(content) THEN HTTP_422_UNPROCESSABLE_ENTITY
    ELSE IF ~HasTranscription(t) THEN HTTP_404_NOT_FOUND
    ELSE IF transcriptions[t].secretary_id # u THEN HTTP_403_FORBIDDEN
    ELSE IF transcriptions[t].status \notin {"draft", "rejected"}
    THEN HTTP_409_CONFLICT
    ELSE HTTP_200_OK

\* update_transcription_status with the transition on a manual save only
update_transcription_status_manual_only(status, is_autosave) ==
    IF status = "rejected" /\ ~is_autosave THEN "revised" ELSE status

\* "If editing after rejection, update status to revised"
update_transcription_status(status, is_autosave) ==
    IF status = "rejected" THEN "revised" ELSE status

update_transcription(u, t, content, is_autosave) ==
    /\ resp' = Response("update_transcription", update_transcription_check(u, t, content))
    /\ IF update_transcription_check(u, t, content) = HTTP_200_OK
       THEN transcriptions' = [transcriptions EXCEPT ![t] =
               [@ EXCEPT
                  !.content = content,
                  !.last_autosave_at = IF is_autosave THEN utcnow ELSE @,
                  !.status = update_transcription_status(@, is_autosave)]]
       ELSE UNCHANGED transcriptions
    /\ UNCHANGED <<dictations, sessions>>
    /\ UNCHANGED <<tokens, audit_logs, hashes>>

---------------------------------------------------------------------------
(* POST /transcriptions/{id}/submit *)

\* content_empty without the strip()
content_empty_no_strip(content) == content = <<>>

\* `not content or len(content.strip()) == 0`
content_empty(content) == content = <<>> \/ Len(strip(content)) = 0

\* submit_transcription_check with the test of the status left out
submit_transcription_check_any_status(u, t) ==
    IF ~require_role(u, {"secretary"}) THEN HTTP_403_FORBIDDEN
    ELSE IF ~HasTranscription(t) THEN HTTP_404_NOT_FOUND
    ELSE IF transcriptions[t].secretary_id # u THEN HTTP_403_FORBIDDEN
    ELSE IF content_empty(transcriptions[t].content)
    THEN HTTP_422_UNPROCESSABLE_ENTITY
    ELSE HTTP_200_OK

submit_transcription_check(u, t) ==
    IF ~require_role(u, {"secretary"}) THEN HTTP_403_FORBIDDEN
    ELSE IF ~HasTranscription(t) THEN HTTP_404_NOT_FOUND
    ELSE IF transcriptions[t].secretary_id # u THEN HTTP_403_FORBIDDEN
    ELSE IF transcriptions[t].status \notin {"draft", "revised"}
    THEN HTTP_400_BAD_REQUEST
    ELSE IF content_empty(transcriptions[t].content)
    THEN HTTP_422_UNPROCESSABLE_ENTITY
    ELSE HTTP_200_OK

submit_transcription(u, t) ==
    /\ resp' = Response("submit_transcription", submit_transcription_check(u, t))
    /\ IF submit_transcription_check(u, t) = HTTP_200_OK
       THEN /\ transcriptions' = [transcriptions EXCEPT ![t] =
                  [@ EXCEPT !.status = "submitted", !.submitted_at = utcnow]]
            /\ dictations' =
                  IF HasDictation(transcriptions[t].dictation_id)
                  THEN [dictations EXCEPT ![transcriptions[t].dictation_id] =
                          [@ EXCEPT !.status = "completed",
                                    !.completed_at = utcnow]]
                  ELSE dictations
       ELSE UNCHANGED <<transcriptions, dictations>>
    /\ UNCHANGED sessions
    /\ UNCHANGED <<tokens, audit_logs, hashes>>

---------------------------------------------------------------------------
(* POST /transcriptions/{id}/review *)

\* request bodies (TranscriptionReview), each holding the fields present in
\* the JSON: a field left out keeps its default and is not validated
ReviewBodies ==
    { [action |-> "approve"],
      [action |-> "approve", review_notes |-> "fine"],
      [action |-> "reject", rejection_reason |-> "illegible"],
      [action |-> "reject"],
      [action |-> "reject", rejection_reason |-> None],
      [action |-> "reject", rejection_reason |-> ""],
      [action |-> "remove"] }

\* the value the model gives a field: the one sent, or the default None
field(body, name) == IF name \in DOMAIN body THEN body[name] ELSE None

\* Python truth of an Optional[str]
falsy(v) == v = None \/ v = ""

\* validate_action and validate_rejection_reason
review_valid(body) ==
    /\ body.action \in {"approve", "reject"}
    /\ "rejection_reason" \in DOMAIN body =>
          ~(body.action = "reject" /\ falsy(body.rejection_reason))

\* review_transcription_check with the test of the owner left out
review_transcription_check_any_doctor(u, t, body) ==
    IF ~require_role(u, {"doctor", "admin"}) THEN HTTP_403_FORBIDDEN
    ELSE IF ~review_valid(body) THEN HTTP_422_UNPROCESSABLE_ENTITY
    ELSE IF ~HasTranscription(t) THEN HTTP_404_NOT_FOUND
    ELSE IF ~HasDictation(transcriptions[t].dictation_id)
    THEN HTTP_404_NOT_FOUND
    ELSE IF transcriptions[t].status # "submitted" THEN HTTP_400_BAD_REQUEST
    ELSE HTTP_200_OK

review_transcription_check(u, t, body) ==
    IF ~require_role(u, {"doctor", "admin"}) THEN HTTP_403_FORBIDDEN
    ELSE IF ~review_valid(body) THEN HTTP_422_UNPROCESSABLE_ENTITY
    ELSE IF ~HasTranscription(t) THEN HTTP_404_NOT_FOUND
    ELSE IF ~HasDictation(transcriptions[t].dictation_id)
    THEN HTTP_404_NOT_FOUND
    ELSE IF /\ UserRole(u) # "admin"
            /\ dictations[transcriptions[t].dictation_id].doctor_id # u
    THEN HTTP_403_FORBIDDEN
    ELSE IF transcriptions[t].status # "submitted" THEN HTTP_400_BAD_REQUEST
    ELSE HTTP_200_OK

review_transcription(u, t, body) ==
    /\ resp' = Response("review_transcription", review_transcription_check(u, t, body))
    /\ IF review_transcription_check(u, t, body) = HTTP_200_OK
       THEN /\ transcriptions' = [transcriptions EXCEPT ![t] =
                  IF body.action = "approve"
                  THEN [@ EXCEPT !.reviewer_id = u, !.reviewed_at = utcnow,
                                 !.status = "approved",
                                 !.review_notes = field(body, "review_notes")]
                  ELSE [@ EXCEPT !.reviewer_id = u, !.reviewed_at = utcnow,
                                 !.status = "rejected",
                                 !.rejection_reason =
                                     field(body, "rejection_reason"),
                                 !.review_notes = field(body, "review_notes")]]
            /\ dictations' = [dictations EXCEPT
                  ![transcriptions[t].dictation_id] =
                     [@ EXCEPT !.status = IF body.action = "approve"
                                          THEN "reviewed" ELSE "rejected"]]
       ELSE UNCHANGED <<transcriptions, dictations>>
    /\ UNCHANGED sessions
    /\ UNCHANGED <<tokens, audit_logs, hashes>>

---------------------------------------------------------------------------
(* The service, requests served one at a time *)

Next ==
    \/ \E u \in Uploaders, p \in {"normal", "asap"}, saved \in BOOLEAN :
          create_dictation(u, p, saved)
    \/ \E u \in Users, d \in RequestIds : claim_dictation(u, d)
    \/ \E u \in Users, d \in RequestIds : unclaim_dictation(u, d)
    \/ \E u \in Users, d \in RequestIds, body \in UpdateBodies,
          opa \in OpaOutcomes : update_dictation(u, d, body, opa)
    \/ \E u \in Users, d \in RequestIds, opa \in OpaOutcomes :
          delete_dictation(u, d, opa)
    \/ \E u \in Users, d \in RequestIds, c \in Contents :
          create_transcription(u, d, c)
    \/ \E u \in Users, t \in RequestIds, c \in Contents, a \in BOOLEAN :
          update_transcription(u, t, c, a)
    \/ \E u \in Users, t \in RequestIds : submit_transcription(u, t)
    \/ \E u \in Users, t \in RequestIds, body \in ReviewBodies :
          review_transcription(u, t, body)

Spec == Init /\ [][Next]_vars

---------------------------------------------------------------------------
(* The service, requests interleaved between their SELECT and their COMMIT *)

\* a new request takes the first free session
FreeSlot(s) ==
    /\ sessions[s].op = "idle"
    /\ \A t \in Slots : t < s => sessions[t].op # "idle"

NextInterleaved ==
    \/ \E u \in Uploaders, p \in {"normal", "asap"}, saved \in BOOLEAN :
          create_dictation(u, p, saved)
    \/ \E s \in Slots, u \in Users, d \in RequestIds :
          FreeSlot(s) /\ claim_dictation_read(s, u, d)
    \/ \E s \in Slots : claim_dictation_commit(s)
    \/ \E u \in Users, d \in RequestIds : unclaim_dictation(u, d)
    \/ \E s \in Slots, u \in Users, d \in RequestIds, opa \in OpaOutcomes :
          FreeSlot(s) /\ delete_dictation_read(s, u, d, opa)
    \/ \E s \in Slots : delete_dictation_commit(s)
    \/ \E s \in Slots, u \in Users, d \in RequestIds, c \in Contents :
          FreeSlot(s) /\ create_transcription_read(s, u, d, c)
    \/ \E s \in Slots : create_transcription_commit(s)

SpecInterleaved == Init /\ [][NextInterleaved]_vars

---------------------------------------------------------------------------
(* The update of a dictation's fields, on its own *)

\* the callers of the update: the uploading doctor, a secretary, the admin
Updaters == {1, 3, 5}

NextUpdate ==
    \/ \E u \in {1, 5}, p \in {"normal", "asap"}, saved \in BOOLEAN :
          create_dictation(u, p, saved)
    \/ \E u \in Updaters, d \in RequestIds, body \in DictationUpdates,
          opa \in OpaOutcomes : update_dictation(u, d, body, opa)

SpecUpdate == Init /\ [][NextUpdate]_vars

---------------------------------------------------------------------------
(* Claims interleaved with unclaims and with updates of the status *)

NextReclaim ==
    \/ \E u \in Uploaders, p \in {"normal", "asap"}, saved \in BOOLEAN :
          create_dictation(u, p, saved)
    \/ \E s \in Slots, u \in Users, d \in RequestIds :
          FreeSlot(s) /\ claim_dictation_read(s, u, d)
    \/ \E s \in Slots : claim_dictation_commit(s)
    \/ \E u \in Users, d \in RequestIds : unclaim_dictation(u, d)
    \/ \E u \in Users, d \in RequestIds, body \in UpdateBodies,
          opa \in OpaOutcomes : update_dictation(u, d, body, opa)

SpecReclaim == Init /\ [][NextReclaim]_vars

---------------------------------------------------------------------------
(* The work queue, queried over tables of several dictations *)

\* (status, secretary_id, deleted_at) of the rows: waiting, assigned and
\* waiting, held by a secretary, taken, done and released, soft-deleted
QueueRowStates ==
    { <<"pending", NULL, NULL>>, <<"assigned", NULL, NULL>>,
      <<"assigned", 3, NULL>>, <<"in_progress", 3, NULL>>,
      <<"completed", NULL, NULL>>, <<"pending", NULL, utcnow>> }

QueueRow(priority, created_at, st) ==
    [doctor_id |-> 1, secretary_id |-> st[2], status |-> st[1],
     priority |-> priority, title |-> None, patient_reference |-> None,
     notes |-> None, created_at |-> created_at,
     claimed_at |-> IF st[2] # NULL THEN utcnow ELSE NULL,
     completed_at |-> NULL,
     deleted_at |-> st[3]]

\* tables of up to MaxQueueRows rows, inserted in the order of their ids
InitQueue ==
    /\ \E n \in 0..MaxQueueRows :
          \E pr \in [1..n -> DictationPriority],
             at \in [1..n -> 1..MaxClock],
             st \in [1..n -> QueueRowStates] :
             /\ \A i, j \in 1..n : i < j => at[i] <= at[j]
             /\ dictations = [i \in 1..n |-> QueueRow(pr[i], at[i], st[i])]
    /\ transcriptions = <<>>
    /\ sessions = [s \in Slots |-> Idle]
    /\ resp = Response("none", IN_FLIGHT)
    /\ tokens = {}
    /\ audit_logs = <<>>
    /\ hashes = <<>>

NextQueue ==
    \E u \in {1, 3}, skip \in {0, 1}, limit \in {1, MaxQueueRows},
       priority_filter \in {None, "urgent", "asap"} :
       get_work_queue(u, skip, limit, priority_filter)

SpecQueue == InitQueue /\ [][NextQueue]_vars

---------------------------------------------------------------------------
(* The authorization decision point, asked on its own *)

PolicyActions ==
    {"create", "read", "update", "delete", "claim", "submit", "approve",
     "reject"}

PolicyResources == {"dictation", "transcription", "user"}

\* resource_owner_id: none given, or a user
PolicyOwners == {NULL} \cup Doctors \cup Secretaries

NextPolicy ==
    \E opa \in OpaReplies, u \in Uploaders, action \in PolicyActions,
       resource_type \in PolicyResources, owner \in PolicyOwners :
       check_permission(opa, u, action, resource_type, owner)

SpecPolicy == Init /\ [][NextPolicy]_vars

---------------------------------------------------------------------------
(* Logins, refreshes and authenticated requests *)

\* a user id no row of "users" has
NoUser == 9

\* tokens not signed by the service: any type, any subject
ForgedTokens ==
    {[type |-> ty, sub |-> u] : ty \in {"access", "refresh"},
                                u \in {1, NoUser}}

\* what a client can present: a token the service issued, before or after
\* its expiry, or a token with another signature
NextTokens ==
    \/ \E u \in Uploaders, password_ok \in BOOLEAN, is_active \in BOOLEAN :
          login(u, password_ok, is_active)
    \/ \E token \in tokens, expired \in BOOLEAN, is_active \in BOOLEAN :
          refresh_access_token(token, TRUE, expired, is_active)
    \/ \E token \in ForgedTokens, expired \in BOOLEAN :
          refresh_access_token(token, FALSE, expired, TRUE)
    \/ \E token \in tokens, expired \in BOOLEAN, is_active \in BOOLEAN :
          get_current_user(token, TRUE, expired, is_active)
    \/ \E token \in ForgedTokens, expired \in BOOLEAN :
          get_current_user(token, FALSE, expired, TRUE)

SpecTokens == Init /\ [][NextTokens]_vars

---------------------------------------------------------------------------
(* Properties *)

Rows == 1..Len(dictations)

TRows == 1..Len(transcriptions)

Succeeded(op) == resp.op = op /\ resp.code \in {HTTP_200_OK, HTTP_201_CREATED}

\* secretary_id, status and claimed_at of row d are the same after the step
ClaimColumnsUnchanged(d) ==
    /\ dictations'[d].secretary_id = dictations[d].secretary_id
    /\ dictations'[d].status = dictations[d].status
    /\ dictations'[d].claimed_at = dictations[d].claimed_at

\* C1 as stated: in every reachable state every dictation has secretary_id
\* non-null if and only if its status is assigned or in_progress.
C1_SecretaryIffAssignedOrInProgress ==
    \A d \in Rows :
        dictations[d].secretary_id # NULL
            <=> dictations[d].status \in {"assigned", "in_progress"}

\* C1 as amended: secretary_id changes only together with the status: a step
\* that sets a dictation's secretary_id leaves its status in_progress, a step
\* that clears it leaves its status pending (submit and review move the
\* status on and keep secretary_id).
C1_SecretaryChangesWithStatus ==
    [][\A d \in Rows :
          dictations'[d].secretary_id # dictations[d].secretary_id =>
              IF dictations'[d].secretary_id # NULL
              THEN dictations'[d].status = "in_progress"
              ELSE dictations'[d].status = "pending"]_vars

\* a claim has just set secretary_id, and the dictation is in_progress
C1_Witness ==
    /\ Succeeded("claim_dictation")
    /\ \E d \in Rows : /\ dictations[d].secretary_id # NULL
                       /\ dictations[d].status = "in_progress"

\* C2 as stated: a claim by secretary B of a dictation whose secretary_id is
\* another secretary A is answered 409 and leaves secretary_id, status and
\* claimed_at as they were.
C2_ClaimOfClaimedIsConflict ==
    [][\A u \in Secretaries, d \in Rows :
          (/\ dictations[d].secretary_id \notin {NULL, u}
           /\ claim_dictation(u, d))
          => /\ resp'.code = HTTP_409_CONFLICT
             /\ ClaimColumnsUnchanged(d)]_vars

\* C2 as amended: such a claim always fails and leaves secretary_id, status
\* and claimed_at as they were; it is answered 409 when the dictation is not
\* soft-deleted and 404 when it is.
C2_ClaimOfClaimedFails ==
    [][\A u \in Secretaries, d \in Rows :
          (/\ dictations[d].secretary_id \notin {NULL, u}
           /\ claim_dictation(u, d))
          => /\ resp'.code = IF dictations[d].deleted_at = NULL
                             THEN HTTP_409_CONFLICT ELSE HTTP_404_NOT_FOUND
             /\ ClaimColumnsUnchanged(d)]_vars

\* a claim was answered 409 for a dictation that is open for claims again
\* (status pending or assigned) and still held by a secretary
C2_Witness ==
    /\ resp.op = "claim_dictation" /\ resp.code = HTTP_409_CONFLICT
    /\ \E d \in Rows : /\ dictations[d].secretary_id # NULL
                       /\ dictations[d].status \in {"pending", "assigned"}
                       /\ dictations[d].deleted_at = NULL

\* C3: of two claims of different secretaries on the same unclaimed
\* dictation whose reads and commits interleave, at most one is answered
\* with success: no claim succeeds for a request that was in flight while
\* the other secretary's claim succeeded.
C3_AtMostOneConcurrentClaimSucceeds ==
    ~(Succeeded("claim_dictation") /\ resp.rival # NULL)

\* C4: right after a successful claim, a claim by the secretary who holds the
\* dictation is accepted.
C4_ReclaimByHolderSucceeds ==
    \A d \in Rows, u \in Secretaries :
        (/\ Succeeded("claim_dictation")
         /\ dictations[d].secretary_id = u
         /\ dictations[d].status = "in_progress"
         /\ dictations[d].deleted_at = NULL)
        => claim_check(u, d) = HTTP_200_OK

\* C5: in every reachable state, also of interleaved create_transcription
\* requests, no dictation has more than one transcription.
C5_OneTranscriptionPerDictation ==
    \A d \in Rows : Cardinality(TranscriptionsOf(d)) <= 1

\* a request that passed the existence check was refused at its INSERT,
\* because another request had inserted a transcription in between
C5_Witness ==
    /\ resp.op = "create_transcription"
    /\ resp.code = HTTP_500_INTERNAL_SERVER_ERROR
    /\ \E d \in Rows : Cardinality(TranscriptionsOf(d)) = 1

\* contents a request body may carry (min_length = 1)
ValidContents == {c \in Contents : Len(c) >= 1}

\* the content holds nothing but whitespace
Blank(c) == \A i \in 1..Len(c) : c[i] \in Whitespace

\* the row the step appended to "transcriptions"
NewTranscription == transcriptions'[Len(transcriptions')]

C7_WorkflowSteps ==
    [][/\ \A u \in Doctors, p \in DictationPriority :
             (resp'.op = "create_dictation" /\ create_dictation(u, p, TRUE))
             => /\ resp'.code = HTTP_201_CREATED
                /\ dictations'[Len(dictations')].status = "pending"
                /\ dictations'[Len(dictations')].secretary_id = NULL
       /\ \A u \in Secretaries, d \in Rows :
             (/\ resp'.op = "claim_dictation"
              /\ dictations[d].status = "pending"
              /\ dictations[d].secretary_id = NULL
              /\ dictations[d].deleted_at = NULL
              /\ claim_dictation(u, d))
             => /\ resp'.code = HTTP_200_OK
                /\ dictations'[d].status = "in_progress"
                /\ dictations'[d].secretary_id = u
       /\ \A u \in Secretaries, d \in Rows, c \in ValidContents :
             (/\ resp'.op = "create_transcription"
              /\ dictations[d].status = "in_progress"
              /\ dictations[d].secretary_id = u
              /\ dictations[d].deleted_at = NULL
              /\ TranscriptionsOf(d) = {}
              /\ create_transcription(u, d, c))
             => /\ resp'.code = HTTP_201_CREATED
                /\ NewTranscription.status = "draft"
       /\ \A t \in TRows :
             (/\ resp'.op = "submit_transcription"
              /\ transcriptions[t].status \in {"draft", "revised"}
              /\ ~Blank(transcriptions[t].content)
              /\ submit_transcription(transcriptions[t].secretary_id, t))
             => /\ resp'.code = HTTP_200_OK
                /\ transcriptions'[t].status = "submitted"
                /\ dictations'[transcriptions[t].dictation_id].status
                       = "completed"
       /\ \A t \in TRows :
             (/\ resp'.op = "review_transcription"
              /\ transcriptions[t].status = "submitted"
              /\ review_transcription(
                    dictations[transcriptions[t].dictation_id].doctor_id, t,
                    [action |-> "reject", rejection_reason |-> "illegible"]))
             => /\ resp'.code = HTTP_200_OK
                /\ transcriptions'[t].status = "rejected"
                /\ dictations'[transcriptions[t].dictation_id].status
                       = "rejected"
       /\ \A t \in TRows, c \in ValidContents, a \in BOOLEAN :
             (/\ resp'.op = "update_transcription"
              /\ transcriptions[t].status = "rejected"
              /\ update_transcription(transcriptions[t].secretary_id, t, c, a))
             => /\ resp'.code = HTTP_200_OK
                /\ transcriptions'[t].status = "revised"
                /\ transcriptions'[t].content = c]_vars

\* the end of the workflow: a transcription that its dictation's doctor
\* rejected as "illegible" was resubmitted, and the dictation is completed
C7_Witness ==
    /\ Succeeded("submit_transcription")
    /\ \E t \in TRows :
          LET d == transcriptions[t].dictation_id IN
          /\ transcriptions[t].status = "submitted"
          /\ transcriptions[t].rejection_reason = "illegible"
          /\ transcriptions[t].reviewer_id = dictations[d].doctor_id
          /\ dictations[d].doctor_id \in Doctors
          /\ dictations[d].secretary_id = transcriptions[t].secretary_id
          /\ dictations[d].status = "completed"

\* C8: an update by the creating secretary is accepted when the status is
\* draft or revised, and answered 409 when it is submitted or approved (the
\* status rejected, which the claim does not name, is left aside here: C7
\* and C16 have the edit of a rejected transcription accepted).
C8_EditableInDraftAndRevised ==
    \A t \in TRows, c \in ValidContents :
        LET code == update_transcription_check(
                        transcriptions[t].secretary_id, t, c)
        IN  /\ transcriptions[t].status \in {"draft", "revised"}
                 => code = HTTP_200_OK
            /\ transcriptions[t].status \in {"submitted", "approved"}
                 => code = HTTP_409_CONFLICT

\* C9: submit of a transcription whose content is empty or blank is answered
\* 422 to its secretary, succeeds for nobody, and changes neither table;
\* submit by its secretary of a draft or revised transcription with other
\* content succeeds, sets it submitted and sets its dictation completed with
\* completed_at set.
C9_SubmitValidatesContent ==
    [][\A u \in Users, t \in TRows :
          (resp'.op = "submit_transcription" /\ submit_transcription(u, t))
          => IF Blank(transcriptions[t].content)
             THEN /\ resp'.code # HTTP_200_OK
                  /\ u = transcriptions[t].secretary_id
                        => resp'.code = HTTP_422_UNPROCESSABLE_ENTITY
                  /\ transcriptions' = transcriptions
                  /\ dictations' = dictations
             ELSE (/\ u = transcriptions[t].secretary_id
                   /\ transcriptions[t].status \in {"draft", "revised"})
                  => /\ resp'.code = HTTP_200_OK
                     /\ transcriptions'[t].status = "submitted"
                     /\ dictations'[transcriptions[t].dictation_id].status
                            = "completed"
                     /\ dictations'[transcriptions[t].dictation_id]
                            .completed_at # NULL]_vars

\* the secretary's submit of a blank draft was answered 422
C9_Witness ==
    /\ resp.op = "submit_transcription"
    /\ resp.code = HTTP_422_UNPROCESSABLE_ENTITY
    /\ \E t \in TRows : /\ Blank(transcriptions[t].content)
                        /\ transcriptions[t].status = "draft"

\* C10: a review succeeds only for a submitted transcription and a caller who
\* is an admin or the doctor owning the dictation; it then sets reviewer_id
\* to the caller, and approve sets the transcription approved and the
\* dictation reviewed, reject sets both rejected; a review that does not
\* succeed changes neither table.
C10_ReviewGuardsAndEffects ==
    [][resp'.op = "review_transcription"
       => IF resp'.code = HTTP_200_OK
          THEN \A u \in Users, t \in RequestIds, body \in ReviewBodies :
                  review_transcription(u, t, body)
                  => LET d == transcriptions[t].dictation_id IN
                     /\ HasTranscription(t)
                     /\ transcriptions[t].status = "submitted"
                     /\ \/ UserRole(u) = "admin"
                        \/ /\ UserRole(u) = "doctor"
                           /\ dictations[d].doctor_id = u
                     /\ transcriptions'[t].reviewer_id = u
                     /\ body.action = "approve"
                           => /\ transcriptions'[t].status = "approved"
                              /\ dictations'[d].status = "reviewed"
                     /\ body.action = "reject"
                           => /\ transcriptions'[t].status = "rejected"
                              /\ dictations'[d].status = "rejected"
          ELSE /\ transcriptions' = transcriptions
               /\ dictations' = dictations]_vars

\* the owning doctor's approval was accepted
C10_Witness ==
    /\ Succeeded("review_transcription")
    /\ \E t \in TRows :
          LET d == transcriptions[t].dictation_id IN
          /\ transcriptions[t].status = "approved"
          /\ transcriptions[t].reviewer_id = dictations[d].doctor_id
          /\ dictations[d].doctor_id \in Doctors
          /\ dictations[d].status = "reviewed"

\* C11: a review with action reject whose rejection_reason is omitted, null
\* or empty is answered 422 to a doctor or admin, succeeds for nobody and
\* changes neither table; a review with action approve and no
\* rejection_reason passes validation (it is never answered 422).
C11_RejectNeedsReason ==
    [][resp'.op = "review_transcription"
       => \A u \in Users, t \in RequestIds, body \in ReviewBodies :
             review_transcription(u, t, body)
             => /\ (/\ body.action = "reject"
                    /\ falsy(field(body, "rejection_reason")))
                   => /\ resp'.code # HTTP_200_OK
                      /\ UserRole(u) \in {"doctor", "admin"}
                            => resp'.code = HTTP_422_UNPROCESSABLE_ENTITY
                      /\ transcriptions' = transcriptions
                      /\ dictations' = dictations
                /\ (/\ body.action = "approve"
                    /\ "rejection_reason" \notin DOMAIN body)
                   => resp'.code # HTTP_422_UNPROCESSABLE_ENTITY]_vars

\* C12: on a dictation that is not soft-deleted, unclaim by the secretary
\* holding the claim or by an admin succeeds and sets secretary_id NULL,
\* status pending and claimed_at NULL; unclaim by a secretary or an admin of
\* a dictation that nobody holds is answered 400 ("not currently claimed")
\* and changes nothing.
C12_UnclaimByHolderOrAdmin ==
    [][resp'.op = "unclaim_dictation"
       => \A u \in Secretaries \cup Admins, d \in Rows :
             (dictations[d].deleted_at = NULL /\ unclaim_dictation(u, d))
             => /\ (/\ dictations[d].secretary_id # NULL
                    /\ u = dictations[d].secretary_id \/ u \in Admins)
                   => /\ resp'.code = HTTP_200_OK
                      /\ dictations'[d].secretary_id = NULL
                      /\ dictations'[d].status = "pending"
                      /\ dictations'[d].claimed_at = NULL
                /\ dictations[d].secretary_id = NULL
                   => /\ resp'.code = HTTP_400_BAD_REQUEST
                      /\ dictations' = dictations]_vars

UpdatableFields == {"title", "priority", "notes", "patient_reference"}

\* C14: an update changes the status only when the caller is an admin who
\* supplied one: for any other caller the status is left as it was, whatever
\* the body holds; an update that succeeds applies every supplied title,
\* priority, notes and patient_reference (and, for an admin, the supplied
\* status) and leaves the other fields; the owner's update with no null
\* priority succeeds whenever the permission check lets it through.
C14_StatusSetByAdminOnly ==
    [][resp'.op = "update_dictation"
       => \A u \in Updaters, d \in Rows, body \in DictationUpdates,
             opa \in OpaOutcomes :
             update_dictation(u, d, body, opa)
             => /\ UserRole(u) # "admin" \/ "status" \notin DOMAIN body
                   => dictations'[d].status = dictations[d].status
                /\ resp'.code = HTTP_200_OK
                   => /\ \A f \in UpdatableFields \cap DOMAIN body :
                            dictations'[d][f] = body[f]
                      /\ \A f \in DOMAIN dictations[d] \ DOMAIN body :
                            dictations'[d][f] = dictations[d][f]
                      /\ UserRole(u) = "admin" /\ "status" \in DOMAIN body
                            => dictations'[d].status = body.status
                /\ (/\ u = dictations[d].doctor_id
                    /\ UserRole(u) = "doctor"
                    /\ dictations[d].deleted_at = NULL
                    /\ check_resource_permission(opa, u, "update",
                          "dictation", dictations[d].doctor_id) = HTTP_200_OK
                    /\ "priority" \in DOMAIN body => body.priority # None)
                   => resp'.code = HTTP_200_OK]_vars

\* an update succeeded on a doctor's dictation whose title was set and whose
\* status is the one it was uploaded with
C14_Witness ==
    /\ Succeeded("update_dictation")
    /\ \E d \in Rows : /\ dictations[d].doctor_id \in Doctors
                       /\ dictations[d].title = "A"
                       /\ dictations[d].priority = "urgent"
                       /\ dictations[d].status = "pending"

\* C15: in every reachable state every dictation has claimed_at set if and
\* only if it has secretary_id set.
C15_ClaimedAtIffSecretary ==
    \A d \in Rows :
        dictations[d].claimed_at # NULL <=> dictations[d].secretary_id # NULL

\* C16: an edit of a rejected transcription by its secretary is accepted and
\* sets the status revised, as an autosave and as a manual save alike; an
\* accepted edit in any other status leaves the status as it was.
C16_EditOfRejectedRevises ==
    [][resp'.op = "update_transcription"
       => IF resp'.code = HTTP_200_OK
          THEN \A u \in Users, t \in TRows, c \in Contents, a \in BOOLEAN :
                  update_transcription(u, t, c, a)
                  => transcriptions'[t].status =
                        IF transcriptions[t].status = "rejected"
                        THEN "revised" ELSE transcriptions[t].status
          ELSE /\ transcriptions' = transcriptions
               /\ \A t \in TRows, c \in ValidContents, a \in BOOLEAN :
                     transcriptions[t].status = "rejected"
                     => ~update_transcription(
                            transcriptions[t].secretary_id, t, c, a)]_vars

\* an autosave of a rejected transcription has left it revised
C16_Witness ==
    /\ Succeeded("update_transcription")
    /\ \E t \in TRows : /\ transcriptions[t].status = "revised"
                        /\ transcriptions[t].last_autosave_at # NULL
                        /\ transcriptions[t].rejection_reason = "illegible"

\* the order the claim gives the priorities, first to last
QueuePriorityOrder == <<"urgent", "high", "normal", "low">>

\* the place of a priority in that order
QueuePlace(p) == CHOOSE i \in 1..4 : QueuePriorityOrder[i] = p

\* the rows the claim has in the queue
QueueEligible ==
    {d \in Rows : /\ dictations[d].deleted_at = NULL
                  /\ dictations[d].status \in {"pending", "assigned"}
                  /\ dictations[d].secretary_id = NULL}

\* the items are in the claim's order: never a later priority before an
\* earlier one, nor, within one priority, a younger row before an older one
QueueSorted(items) ==
    \A i, j \in 1..Len(items) :
        i < j =>
            LET a == dictations[items[i]]
                b == dictations[items[j]]
            IN  /\ QueuePlace(a.priority) <= QueuePlace(b.priority)
                /\ a.priority = b.priority => a.created_at <= b.created_at

\* C17: the work queue, asked by a secretary with no priority filter, returns
\* rows in the order urgent, high, normal, low and, within one priority,
\* oldest first, none of them twice and each of them non-deleted, pending or
\* assigned and with secretary_id NULL; the first page, when it is long
\* enough, holds exactly those rows, and total is their number.
C17_QueueContentsAndOrder ==
    (/\ resp.op = "get_work_queue"
     /\ resp.code = HTTP_200_OK
     /\ resp.priority = None)
    => /\ QueueSorted(resp.items)
       /\ \A i, j \in 1..Len(resp.items) :
             i # j => resp.items[i] # resp.items[j]
       /\ \A i \in 1..Len(resp.items) : resp.items[i] \in QueueEligible
       /\ resp.total = Cardinality(QueueEligible)
       /\ (resp.skip = 0 /\ resp.limit >= Len(dictations))
             => {resp.items[i] : i \in 1..Len(resp.items)} = QueueEligible

\* the queue returned a high dictation before a low one uploaded earlier
C17_Witness ==
    /\ resp.op = "get_work_queue" /\ resp.code = HTTP_200_OK
    /\ resp.priority = None
    /\ Len(resp.items) = 2
    /\ dictations[resp.items[1]].priority = "high"
    /\ dictations[resp.items[2]].priority = "low"
    /\ resp.items[1] > resp.items[2]

\* the replies that are a transport error or a timeout
TransportFailures == {"ConnectError", "ConnectTimeout", "ReadTimeout"}

\* C18: when the call to the policy evaluator fails with a transport error
\* or a timeout, check_permission raises nothing and returns the decision of
\* the fallback rules for the same query.
C18_TransportFailureFallsBack ==
    (resp.op = "check_permission" /\ resp.opa \in TransportFailures)
    => /\ resp.result # "raised"
       /\ resp.result = "allowed"
             <=> fallback_authorization(UserRole(resp.user), resp.action,
                    resp.resource_type, resp.user, resp.owner)

\* a query that timed out was answered, with the denial of the fallback
C18_Witness ==
    /\ resp.op = "check_permission"
    /\ resp.opa = "ReadTimeout"
    /\ resp.result = "denied"

\* the decision the fallback gave on the query of the response
FallbackAllowed == resp.result = "allowed"

\* the query was answered by the fallback rules
FallbackAsked == resp.op = "check_permission" /\ resp.opa \in HTTPError

\* C19 as stated: the fallback allows exactly: an admin, anything; a doctor,
\* any action on a dictation they own and read or claim on any dictation; a
\* secretary, any action on a transcription they own and read on any
\* transcription; a doctor, approve or reject on any transcription.
C19_FallbackTable ==
    FallbackAsked
    => (FallbackAllowed
        <=> \/ UserRole(resp.user) = "admin"
            \/ /\ UserRole(resp.user) = "doctor"
               /\ resp.resource_type = "dictation"
               /\ resp.owner = resp.user \/ resp.action \in {"read", "claim"}
            \/ /\ UserRole(resp.user) = "secretary"
               /\ resp.resource_type = "transcription"
               /\ resp.owner = resp.user \/ resp.action = "read"
            \/ /\ UserRole(resp.user) = "doctor"
               /\ resp.resource_type = "transcription"
               /\ resp.action \in {"approve", "reject"})

\* C19 as amended: the fallback allows exactly: an admin, anything; a doctor,
\* create, read, update and delete on a dictation they own or whose owner is
\* not given; a secretary, read and claim on any dictation; a secretary,
\* create, read, update and submit on a transcription they own or whose
\* owner is not given; a doctor, read, approve and reject on any
\* transcription.
C19_FallbackTableOfRoles ==
    FallbackAsked
    => (FallbackAllowed
        <=> \/ UserRole(resp.user) = "admin"
            \/ /\ UserRole(resp.user) = "doctor"
               /\ resp.resource_type = "dictation"
               /\ resp.action \in {"create", "read", "update", "delete"}
               /\ resp.owner \in {NULL, resp.user}
            \/ /\ UserRole(resp.user) = "secretary"
               /\ resp.resource_type = "dictation"
               /\ resp.action \in {"read", "claim"}
            \/ /\ UserRole(resp.user) = "secretary"
               /\ resp.resource_type = "transcription"
               /\ resp.action \in {"create", "read", "update", "submit"}
               /\ resp.owner \in {NULL, resp.user}
            \/ /\ UserRole(resp.user) = "doctor"
               /\ resp.resource_type = "transcription"
               /\ resp.action \in {"read", "approve", "reject"})

\* the fallback refused a doctor the read of another doctor's dictation
C19_Witness ==
    /\ FallbackAsked
    /\ ~FallbackAllowed
    /\ UserRole(resp.user) = "doctor"
    /\ resp.resource_type = "dictation"
    /\ resp.action = "read"
    /\ resp.owner \in Doctors \ {resp.user}

\* C20: get_current_user accepts a token only if the service issued it, it
\* has not expired and its type is access, and answers 401 to every refresh
\* token; the refresh endpoint accepts a token only if the service issued
\* it, it has not expired and its type is refresh, and answers 401 to every
\* access token; the tokens issued by logins and refreshes are the access
\* and refresh tokens of the users who logged in.
C20_TokenAcceptedForItsTypeOnly ==
    /\ \A t \in tokens : t.type \in {"access", "refresh"} /\ t.sub \in Users
    /\ resp.op = "get_current_user"
          => /\ resp.token.type = "refresh"
                   => resp.code = HTTP_401_UNAUTHORIZED
             /\ resp.code = HTTP_200_OK
                   => /\ resp.token.type = "access"
                      /\ resp.token \in tokens
                      /\ resp.signed /\ ~resp.expired
                      /\ resp.user = resp.token.sub
    /\ resp.op = "refresh_access_token"
          => /\ resp.token.type = "access"
                   => resp.code = HTTP_401_UNAUTHORIZED
             /\ resp.code = HTTP_200_OK
                   => /\ resp.token.type = "refresh"
                      /\ resp.token \in tokens
                      /\ resp.signed /\ ~resp.expired
                      /\ create_access_token(resp.token.sub) \in tokens

\* a refresh token the service issued, not expired, was presented as a
\* bearer token and answered 401
C20_Witness ==
    /\ resp.op = "get_current_user"
    /\ resp.code = HTTP_401_UNAUTHORIZED
    /\ resp.token \in tokens
    /\ resp.token.type = "refresh"
    /\ resp.signed /\ ~resp.expired


---------------------------------------------------------------------------
(* Encoded tokens: core/security.py over jose.jwt *)

\* settings.SECRET_KEY and a key that is not the service's
SECRET_KEY == "dev-secret-key-change-in-production-min-32-chars!!!"

wrong_secret == "wrong-secret-key-that-is-different"

\* settings.ALGORITHM
ALGORITHM == "HS256"

\* settings.ACCESS_TOKEN_EXPIRE_MINUTES; the clock counts minutes
ACCESS_TOKEN_EXPIRE_MINUTES == 30

\* the readings of the clock
Clock == 0 .. MaxClock

\* the exceptions of jose that are JWTError or a subclass of it
JWTError == {"JWTError", "ExpiredSignatureError", "JWTClaimsError"}

\* the MAC of a header and a payload under a key: equal only for the same
\* algorithm, key, header and payload
sign(algorithm, key, header, claims) ==
    [alg |-> algorithm, key |-> key, header |-> header, claims |-> claims]

\* jwt.encode: three segments, the header naming the algorithm, the claims
\* and the signature over both
jwt_encode(claims, key, algorithm) ==
    [parts |-> 3,
     header |-> [alg |-> algorithm],
     claims |-> claims,
     signature |-> sign(algorithm, key, [alg |-> algorithm], claims)]

\* the claims of no token
NoClaims == [sub |-> None, role |-> None, type |-> None, exp |-> NULL]

\* jwt_decode with the test of the header's algorithm left out
jwt_decode_any_algorithm(token, key, algorithms, now) ==
    IF token.parts # 3 THEN [error |-> "JWTError", claims |-> NoClaims]
    ELSE IF token.header.alg = None
    THEN [error |-> "JWTError", claims |-> NoClaims]
    ELSE IF token.signature
               # sign(token.header.alg, key, token.header, token.claims)
    THEN [error |-> "JWTError", claims |-> NoClaims]
    ELSE IF token.claims.exp < now
    THEN [error |-> "ExpiredSignatureError", claims |-> NoClaims]
    ELSE [error |-> None, claims |-> token.claims]

\* jwt.decode: the claims of a token of three segments whose header names
\* an allowed algorithm, whose signature is the MAC of its header and claims
\* under the key and whose exp is not before the clock; an exception
\* otherwise
jwt_decode(token, key, algorithms, now) ==
    IF token.parts # 3 THEN [error |-> "JWTError", claims |-> NoClaims]
    ELSE IF token.header.alg = None
    THEN [error |-> "JWTError", claims |-> NoClaims]
    ELSE IF token.header.alg \notin algorithms
    THEN [error |-> "JWTError", claims |-> NoClaims]
    ELSE IF token.signature
               # sign(token.header.alg, key, token.header, token.claims)
    THEN [error |-> "JWTError", claims |-> NoClaims]
    ELSE IF token.claims.exp < now
    THEN [error |-> "ExpiredSignatureError", claims |-> NoClaims]
    ELSE [error |-> None, claims |-> token.claims]

\* create_access_token as the string it returns: the data with exp and type
\* set, signed; an expires_delta of nothing or of zero is the default
create_access_token_encoded(data, expires_delta, now) ==
    LET expire == IF expires_delta # NULL THEN now + expires_delta
                  ELSE now + ACCESS_TOKEN_EXPIRE_MINUTES
    IN  jwt_encode([sub |-> data.sub, role |-> data.role,
                    type |-> "access", exp |-> expire],
                   SECRET_KEY, ALGORITHM)

\* verify_token on the string presented: the claims, None (NoClaims) when
\* jwt.decode raised a JWTError, and the exception when it raised another
verify_token_encoded(token, now) ==
    LET decoded == jwt_decode(token, SECRET_KEY, {ALGORITHM}, now)
    IN  IF decoded.error = None
        THEN [raised |-> None, value |-> decoded.claims]
        ELSE IF decoded.error \in JWTError
        THEN [raised |-> None, value |-> NoClaims]
        ELSE [raised |-> decoded.error, value |-> NoClaims]

\* the data the login and the refresh put into a token
TokenData ==
    {[sub |-> sub, role |-> role] : sub \in {"1", "3"},
                                    role \in {"doctor", "secretary"}}

\* the expires_delta of a call: none, a minute ago, in a minute
ExpiresDeltas == {NULL, 0 - 1, 1}

\* a call of create_access_token at some reading of the clock
issue_access_token(data, expires_delta, now) ==
    /\ Cardinality(tokens) < MaxTokens
    /\ tokens' = tokens \cup {create_access_token_encoded(data, expires_delta, now)}
    /\ resp' = [op |-> "create_access_token", code |-> IN_FLIGHT,
                rival |-> NULL]
    /\ UNCHANGED <<dictations, transcriptions, sessions, audit_logs, hashes>>

\* a call of verify_token at some reading of the clock
verify_token_call(token, now) ==
    /\ resp' = [op |-> "verify_token", code |-> IN_FLIGHT, rival |-> NULL,
                token |-> token, now |-> now,
                raised |-> verify_token_encoded(token, now).raised,
                value |-> verify_token_encoded(token, now).value]
    /\ UNCHANGED <<dictations, transcriptions, sessions, tokens, audit_logs,
                   hashes>>

\* what can be made of an issued token without the service's key: the
\* token with its role changed, with another signature, re-signed under
\* another key or another algorithm, cut or extended by a segment, and with
\* a header that does not decode
Tampered(token) ==
    {[token EXCEPT !.claims.role = "admin"],
     [token EXCEPT !.signature.key = "xxxxx"],
     jwt_encode(token.claims, wrong_secret, ALGORITHM),
     jwt_encode(token.claims, SECRET_KEY, "HS512"),
     [token EXCEPT !.parts = 2],
     [token EXCEPT !.parts = 4],
     [token EXCEPT !.header.alg = None]}

NextJwt ==
    \/ \E data \in TokenData, expires_delta \in ExpiresDeltas, now \in Clock :
          issue_access_token(data, expires_delta, now)
    \/ \E token \in tokens, now \in Clock : verify_token_call(token, now)
    \/ \E issued \in tokens :
          \E token \in Tampered(issued), now \in Clock :
             verify_token_call(token, now)

SpecJwt == Init /\ [][NextJwt]_vars

---------------------------------------------------------------------------
\* the presented token is the one create_access_token returns for this data
IssuedFor(token, data, expires_delta, now) ==
    token = create_access_token_encoded(data, expires_delta, now)

\* the tokens create_access_token can return
Issuable ==
    {create_access_token_encoded(data, expires_delta, now) :
        data \in TokenData, expires_delta \in ExpiresDeltas, now \in Clock}

\* C21: verify_token never raises; on a token create_access_token issued,
\* before its expiry, it returns the issued data with type access and exp
\* the expiry; on a token with a changed payload or signature, signed with
\* another secret or another algorithm, past its expiry or without the
\* three decodable segments it returns None.
C21_VerifyTokenRoundTrip ==
    resp.op = "verify_token"
       => /\ resp.raised = None
          /\ \A data \in TokenData, expires_delta \in ExpiresDeltas,
                issued_at \in Clock :
                LET expire == IF expires_delta = NULL
                              THEN issued_at + ACCESS_TOKEN_EXPIRE_MINUTES
                              ELSE issued_at + expires_delta
                IN  /\ IssuedFor(resp.token, data, expires_delta, issued_at)
                    /\ resp.now < expire
                    => resp.value = [sub |-> data.sub, role |-> data.role,
                                     type |-> "access", exp |-> expire]
          /\ \/ resp.token \notin Issuable
             \/ resp.token.claims.exp < resp.now
             => resp.value = NoClaims

\* an issued token was verified before its expiry and its claims returned
C21_Witness ==
    /\ resp.op = "verify_token"
    /\ resp.token \in tokens
    /\ resp.now < resp.token.claims.exp
    /\ resp.value = resp.token.claims
    /\ resp.value.type = "access"


---------------------------------------------------------------------------
(* GET /dictations/{id}/audio: dictations.py and services/storage.py *)

HTTP_206_PARTIAL_CONTENT == 206

HTTP_416_REQUESTED_RANGE_NOT_SATISFIABLE == 416

\* the size of the file at a path where no file is
NoFile == 0 - 1

\* the sizes a stored file can have
FileSizes == 0 .. MaxFileSize

\* the bytes of a stored file, each written as its offset
FileContent(file_size) == [i \in 1 .. file_size |-> i - 1]

\* the characters \d matches
DigitChars == <<"0", "1", "2", "3", "4", "5", "6", "7", "8", "9">>

Digits == {DigitChars[i] : i \in 1 .. 10}

\* int() of a string of digits; int("") is not called
RECURSIVE int(_)
int(s) ==
    IF s = <<>> THEN 0
    ELSE int(SubSeq(s, 1, Len(s) - 1)) * 10
            + ((CHOOSE i \in 1 .. 10 : DigitChars[i] = s[Len(s)]) - 1)

\* the longest run of digits a string starts with
RECURSIVE digits_prefix(_)
digits_prefix(s) ==
    IF s = <<>> THEN <<>>
    ELSE IF s[1] \notin Digits THEN <<>>
    ELSE <<s[1]>> \o digits_prefix(Tail(s))

\* re.match(r"bytes=(\d+)-(\d*)", range_header): the pattern is matched at
\* the start of the header and what follows the match is not looked at; the
\* unit with its "=" is one character of the model
range_match(range_header) ==
    LET after_unit == IF range_header = <<>> THEN <<>> ELSE Tail(range_header)
        group1 == digits_prefix(after_unit)
        after_group1 == SubSeq(after_unit, Len(group1) + 1, Len(after_unit))
        matched == /\ range_header # <<>>
                   /\ range_header[1] = "bytes="
                   /\ group1 # <<>>
                   /\ after_group1 # <<>>
                   /\ after_group1[1] = "-"
    IN  [matched |-> matched,
         group1 |-> group1,
         group2 |-> IF matched THEN digits_prefix(Tail(after_group1))
                    ELSE <<>>]

\* a request without the Range header
NoHeader == <<None>>

\* "if range_header:" is false for None and for the empty string
truthy(range_header) == range_header # NoHeader /\ range_header # <<>>

\* the parsing and the validation of the Range header: the status and the
\* bytes to stream
range_bounds(range_header, file_size) ==
    IF ~truthy(range_header)
    THEN [code |-> HTTP_200_OK, start_byte |-> 0, end_byte |-> file_size - 1]
    ELSE LET m == range_match(range_header)
             start_byte == int(m.group1)
             end_byte == IF m.group2 # <<>> THEN int(m.group2)
                         ELSE file_size - 1
         IN  IF ~m.matched
             THEN [code |-> HTTP_416_REQUESTED_RANGE_NOT_SATISFIABLE,
                   start_byte |-> 0, end_byte |-> file_size - 1]
             ELSE IF \/ start_byte >= file_size
                     \/ end_byte >= file_size
                     \/ start_byte > end_byte
             THEN [code |-> HTTP_416_REQUESTED_RANGE_NOT_SATISFIABLE,
                   start_byte |-> start_byte, end_byte |-> end_byte]
             ELSE [code |-> HTTP_206_PARTIAL_CONTENT,
                   start_byte |-> start_byte, end_byte |-> end_byte]

\* the read loop of stream_audio_file: chunks of at most ChunkSize bytes
\* from the position of the file until bytes_to_read are read or the file
\* ends
RECURSIVE read_chunks(_, _, _)
read_chunks(content, position, bytes_to_read) ==
    LET chunk_size == IF ChunkSize < bytes_to_read THEN ChunkSize
                      ELSE bytes_to_read
        last == IF position + chunk_size < Len(content)
                THEN position + chunk_size ELSE Len(content)
        chunk == SubSeq(content, position + 1, last)
    IN  IF bytes_to_read <= 0 THEN <<>>
        ELSE IF chunk = <<>> THEN <<>>
        ELSE chunk \o read_chunks(content, position + Len(chunk),
                                  bytes_to_read - Len(chunk))

\* StorageService.stream_audio_file: the bytes the generator yields; it
\* raises ValueError on a range outside the file when it is first iterated
stream_audio_file(file_size, start_byte, end_byte) ==
    IF start_byte < 0 \/ end_byte >= file_size \/ start_byte > end_byte
    THEN [raised |-> "ValueError", body |-> <<>>]
    ELSE [raised |-> None,
          body |-> read_chunks(FileContent(file_size), start_byte,
                               end_byte - start_byte + 1)]

\* the response of the audio endpoint: the request's header, the size of
\* the stored file and the bytes sent
AudioResponse(code, range_header, file_size, body) ==
    [op |-> "stream_audio", code |-> code, rival |-> NULL,
     range_header |-> range_header, file_size |-> file_size, body |-> body]

\* the status the checks of stream_audio before the Range header end the
\* request with
stream_audio_check(u, d, file_size, opa) ==
    IF DictationMissing(d) THEN HTTP_404_NOT_FOUND
    ELSE IF check_resource_permission(opa, u, "read", "dictation",
                                      dictations[d].doctor_id) # HTTP_200_OK
    THEN check_resource_permission(opa, u, "read", "dictation",
                                   dictations[d].doctor_id)
    ELSE IF file_size = NoFile THEN HTTP_404_NOT_FOUND
    ELSE HTTP_200_OK

\* the handler; file_size is the size of the file at the dictation's path
stream_audio(u, d, range_header, file_size, opa) ==
    /\ IF stream_audio_check(u, d, file_size, opa) # HTTP_200_OK
       THEN resp' = AudioResponse(stream_audio_check(u, d, file_size, opa),
                                  range_header, file_size, <<>>)
       ELSE LET r == range_bounds(range_header, file_size) IN
            IF r.code = HTTP_416_REQUESTED_RANGE_NOT_SATISFIABLE
            THEN resp' = AudioResponse(r.code, range_header, file_size, <<>>)
            ELSE resp' = AudioResponse(r.code, range_header, file_size,
                            stream_audio_file(file_size, r.start_byte,
                                              r.end_byte).body)
    /\ UNCHANGED <<dictations, transcriptions, sessions>>
    /\ UNCHANGED <<tokens, audit_logs, hashes>>

\* the decimal digits of a number below 100
str(n) ==
    IF n < 10 THEN <<DigitChars[n + 1]>>
    ELSE <<DigitChars[(n \div 10) + 1], DigitChars[(n % 10) + 1]>>

\* the positions a client asks for
Positions == 0 .. MaxFileSize

\* the Range headers of the requests: none, empty, first-last, first-,
\* -suffix, a first-last of two digits, another unit, and first-last
\* followed by a second range or by other text
RangeHeaders ==
    {NoHeader, <<>>}
    \cup {<<"bytes=">> \o str(s) \o <<"-">> \o str(e) :
             s \in Positions, e \in Positions}
    \cup {<<"bytes=">> \o str(s) \o <<"-">> : s \in Positions}
    \cup {<<"bytes=", "-">> \o str(e) : e \in Positions}
    \cup {<<"bytes=">> \o str(s) \o <<"-">> \o str(10 + e) :
             s \in Positions, e \in {0}}
    \cup {<<"items=">> \o str(s) \o <<"-">> \o str(e) :
             s \in {0}, e \in Positions}
    \cup {<<"bytes=">> \o str(s) \o <<"-">> \o str(e) \o <<",", "0", "-", "0">> :
             s \in {0}, e \in Positions}
    \cup {<<"bytes=">> \o str(s) \o <<"-">> \o str(e) \o <<"x">> :
             s \in Positions, e \in {1}}
    \cup {<<"bytes=", "x", "-", "1">>, <<"bytes=", "0", "1">>}

NextAudio ==
    \/ \E u \in Doctors, saved \in BOOLEAN :
          create_dictation(u, "normal", saved)
    \/ \E u \in Users, d \in RequestIds : delete_dictation(u, d, "allow")
    \/ \E u \in Users, d \in RequestIds, range_header \in RangeHeaders,
          file_size \in FileSizes \cup {NoFile}, opa \in {"allow", "deny"} :
          stream_audio(u, d, range_header, file_size, opa)

SpecAudio == Init /\ [][NextAudio]_vars

---------------------------------------------------------------------------
\* the header is "bytes=", digits, "-", digits and nothing else
FirstLast(range_header) ==
    /\ range_match(range_header).matched
    /\ range_match(range_header).group2 # <<>>
    /\ Len(range_header) = 2 + Len(range_match(range_header).group1)
                             + Len(range_match(range_header).group2)

\* the header is "bytes=", digits and "-", the rest of the file being asked
FirstOnly(range_header) ==
    /\ range_match(range_header).matched
    /\ Len(range_header) = 2 + Len(range_match(range_header).group1)

\* the request reached the stored file
AudioServed ==
    /\ resp.op = "stream_audio"
    /\ resp.code \in {HTTP_200_OK, HTTP_206_PARTIAL_CONTENT,
                      HTTP_416_REQUESTED_RANGE_NOT_SATISFIABLE}
    /\ resp.range_header # NoHeader

\* C22: on a stored file of N bytes, a request with Range "bytes=s-e" and
\* 0 <= s <= e < N is answered 206 with exactly the bytes at offsets s..e;
\* with s >= N, e >= N or s > e, and with a Range header that is not of
\* this form, it is answered 416 and no byte is sent.
C22_RangeRequest ==
    AudioServed
       => IF FirstLast(resp.range_header)
          THEN LET s == int(range_match(resp.range_header).group1)
                   e == int(range_match(resp.range_header).group2)
               IN  IF s <= e /\ e < resp.file_size
                   THEN /\ resp.code = HTTP_206_PARTIAL_CONTENT
                        /\ Len(resp.body) = e - s + 1
                        /\ \A i \in 1 .. Len(resp.body) :
                              resp.body[i] = s + i - 1
                   ELSE /\ resp.code = HTTP_416_REQUESTED_RANGE_NOT_SATISFIABLE
                        /\ resp.body = <<>>
          ELSE FirstOnly(resp.range_header)
               \/ /\ resp.code = HTTP_416_REQUESTED_RANGE_NOT_SATISFIABLE
                  /\ resp.body = <<>>


---------------------------------------------------------------------------
(* StorageService.save_audio_file: services/storage.py *)

\* the bytes an upload can have: up to a chunk and a byte past the ceiling
UploadSizes == 0 .. (MaxUploadSize + ChunkSize + 1)

\* the write loop: the upload is read in chunks of ChunkSize; the size is
\* tested against the ceiling before the chunk is written.  The result is
\* whether the ceiling was exceeded and the bytes written until then
RECURSIVE write_chunks(_, _)
write_chunks(remaining, file_size) ==
    LET chunk == IF ChunkSize < remaining THEN ChunkSize ELSE remaining IN
    IF chunk = 0 THEN [exceeded |-> FALSE, written |-> file_size]
    ELSE IF file_size + chunk > MaxUploadSize
    THEN [exceeded |-> TRUE, written |-> file_size]
    ELSE write_chunks(remaining - chunk, file_size + chunk)

\* settings.ALLOWED_AUDIO_FORMATS, two of them
ALLOWED_AUDIO_FORMATS == {"mp3", "wav"}

\* mime_to_ext of _validate_file_format, for the types of the uploads
mime_to_ext(mime_type) ==
    CASE mime_type = "audio/mpeg" -> "mp3"
      [] mime_type = "audio/wav" -> "wav"
      [] OTHER -> None

\* the call and its outcome: the exception raised, the metadata returned
\* and the size of the file left at the generated path (NoFile for none)
SaveResponse(user_id, suffix, mime_type, upload_size, raised, file_size, on_disk) ==
    [op |-> "save_audio_file", code |-> IN_FLIGHT, rival |-> NULL,
     user_id |-> user_id, suffix |-> suffix, mime_type |-> mime_type,
     upload_size |-> upload_size, raised |-> raised,
     file_size |-> file_size, on_disk |-> on_disk]

\* save_audio_file.  mime_type: what the magic bytes of the upload are
\* detected as; suffix: the extension of its filename.  os_loaded: the
\* submodule aiofiles.os has been imported in the process; the module
\* imports the package aiofiles alone, and when the submodule is not loaded
\* "aiofiles.os.remove" raises AttributeError, which "except Exception"
\* turns into FileUploadError
save_audio_file(user_id, suffix, mime_type, upload_size, os_loaded) ==
    /\ IF \/ mime_to_ext(mime_type) \notin ALLOWED_AUDIO_FORMATS
          \/ suffix \notin ALLOWED_AUDIO_FORMATS
       THEN resp' = SaveResponse(user_id, suffix, mime_type, upload_size,
                                 "FileUploadError", NULL, NoFile)
       ELSE LET w == write_chunks(upload_size, 0) IN
            IF ~w.exceeded
            THEN resp' = SaveResponse(user_id, suffix, mime_type, upload_size,
                                      None, w.written, w.written)
            ELSE IF os_loaded
            THEN resp' = SaveResponse(user_id, suffix, mime_type, upload_size,
                                      "FileUploadError", NULL, NoFile)
            ELSE resp' = SaveResponse(user_id, suffix, mime_type, upload_size,
                                      "FileUploadError", NULL, w.written)
    /\ UNCHANGED <<dictations, transcriptions, sessions>>
    /\ UNCHANGED <<tokens, audit_logs, hashes>>

NextStorage ==
    \E user_id \in Users, suffix \in {"mp3", "wav", "exe"},
       mime_type \in {"audio/mpeg", "audio/wav", "text/plain"},
       upload_size \in UploadSizes, os_loaded \in BOOLEAN :
       save_audio_file(user_id, suffix, mime_type, upload_size, os_loaded)

SpecStorage == Init /\ [][NextStorage]_vars

---------------------------------------------------------------------------
\* C23: an upload of more bytes than the ceiling, streamed to disk, ends in
\* FileUploadError with no file left at the generated path; a file reported
\* as saved is not larger than the ceiling.
C23_CeilingAbortsAndCleans ==
    resp.op = "save_audio_file"
       => /\ resp.upload_size > MaxUploadSize
                => /\ resp.raised = "FileUploadError"
                   /\ resp.on_disk = NoFile
          /\ resp.raised = None
                => /\ resp.file_size <= MaxUploadSize
                   /\ resp.on_disk = resp.file_size


---------------------------------------------------------------------------
\* the operations that change the state of a dictation or a transcription
AuditedOperations ==
    {"create_dictation", "claim_dictation", "unclaim_dictation",
     "delete_dictation", "submit_transcription", "review_transcription"}

\* C24: every request of create, claim, unclaim, delete, submit or review
\* that succeeds adds exactly one row to the audit log, and the row carries
\* the acting user, the action and the resource.
C24_OneAuditEventPerOperation ==
    [][\A op \in AuditedOperations :
          Succeeded(op)'
             => \E user_id \in Users, resource_id \in RequestIds,
                   resource_type \in {"dictation", "transcription"} :
                   audit_logs' = Append(audit_logs,
                                    [user_id |-> user_id, action |-> op,
                                     resource_type |-> resource_type,
                                     resource_id |-> resource_id])]_vars


---------------------------------------------------------------------------
(* Password hashes: core/security.py over passlib.CryptContext *)

\* settings.PASSWORD_HASH_ALGORITHM
PASSWORD_HASH_ALGORITHM == "argon2"

\* _schemes: the configured algorithm first, then the other one
schemes ==
    <<PASSWORD_HASH_ALGORITHM>>
       \o (IF PASSWORD_HASH_ALGORITHM # "bcrypt" THEN <<"bcrypt">> ELSE <<>>)
       \o (IF PASSWORD_HASH_ALGORITHM # "argon2" THEN <<"argon2">> ELSE <<>>)

\* the passwords of the calls: differing in case and in whitespace
Passwords == {"", "password", "Password", "password "}

\* the salts the generator of random bytes yields
Salts == 1 .. MaxHashes

\* the checksum of a password under a scheme and a salt: equal only for
\* the same scheme, salt and password
checksum(scheme, salt, password) ==
    [scheme |-> scheme, salt |-> salt, password |-> password]

\* the checksum of a string that has none
NoChecksum == [scheme |-> None, salt |-> NULL, password |-> None]

\* hash_password with a fixed salt
hash_password_unsalted(password, salt) ==
    [scheme |-> schemes[1], salt |-> NULL,
     checksum |-> checksum(schemes[1], NULL, password)]

\* hash_password: pwd_context.hash under the first scheme, with the salt
\* the generator yielded: the string names the scheme, the salt and the
\* checksum
hash_password(password, salt) ==
    [scheme |-> schemes[1], salt |-> salt,
     checksum |-> checksum(schemes[1], salt, password)]

\* strings that are not hashes: of no scheme of the context ("invalid_hash",
\* "", "short"), and of a scheme but cut before the checksum
MalformedHashes ==
    {[scheme |-> None, salt |-> NULL, checksum |-> NoChecksum],
     [scheme |-> "md5_crypt", salt |-> 1, checksum |-> NoChecksum],
     [scheme |-> "argon2", salt |-> 1, checksum |-> NoChecksum]}

\* pwd_context.verify: it raises on a string of no scheme of the context
\* and on a string of a scheme that does not parse; else it compares the
\* checksum of the password under the hash's scheme and salt
pwd_context_verify(secret, hash) ==
    IF hash.scheme \notin {schemes[i] : i \in 1 .. Len(schemes)}
    THEN [raised |-> "UnknownHashError", result |-> FALSE]
    ELSE IF hash.checksum = NoChecksum
    THEN [raised |-> "ValueError", result |-> FALSE]
    ELSE [raised |-> None,
          result |-> hash.checksum = checksum(hash.scheme, hash.salt, secret)]

\* verify_password: "except Exception" answers False to whatever
\* pwd_context.verify raised
verify_password(plain_password, hashed_password) ==
    LET verified == pwd_context_verify(plain_password, hashed_password)
    IN  [raised |-> None,
         result |-> IF verified.raised = None THEN verified.result ELSE FALSE]

\* a call of hash_password; the salt is of random bytes, and a salt drawn
\* before is not drawn again
hash_password_call(password, salt) ==
    /\ Len(hashes) < MaxHashes
    /\ \A i \in 1 .. Len(hashes) : hashes[i].hash.salt # salt
    /\ hashes' = Append(hashes, [password |-> password,
                                 hash |-> hash_password(password, salt)])
    /\ resp' = [op |-> "hash_password", code |-> IN_FLIGHT, rival |-> NULL]
    /\ UNCHANGED <<dictations, transcriptions, sessions, tokens, audit_logs>>

\* a call of verify_password
verify_password_call(plain_password, hashed_password) ==
    /\ resp' = [op |-> "verify_password", code |-> IN_FLIGHT, rival |-> NULL,
                plain_password |-> plain_password,
                hashed_password |-> hashed_password,
                raised |-> verify_password(plain_password,
                                           hashed_password).raised,
                result |-> verify_password(plain_password,
                                           hashed_password).result]
    /\ UNCHANGED <<dictations, transcriptions, sessions, tokens, audit_logs,
                   hashes>>

NextPasswords ==
    \/ \E password \in Passwords, salt \in Salts :
          hash_password_call(password, salt)
    \/ \E plain_password \in Passwords, i \in 1 .. Len(hashes) :
          verify_password_call(plain_password, hashes[i].hash)
    \/ \E plain_password \in Passwords, hashed_password \in MalformedHashes :
          verify_password_call(plain_password, hashed_password)

SpecPasswords == Init /\ [][NextPasswords]_vars

---------------------------------------------------------------------------
\* C25: verify_password(q, hash_password(p)) is true exactly when q = p;
\* two calls of hash_password, also on the same password, return different
\* hashes and each verifies its password; verify_password on a string that
\* is not a hash is false and raises nothing.
C25_HashVerifies ==
    /\ \A i, j \in 1 .. Len(hashes) :
          i # j => hashes[i].hash # hashes[j].hash
    /\ \A i \in 1 .. Len(hashes), q \in Passwords :
          /\ verify_password(q, hashes[i].hash).raised = None
          /\ verify_password(q, hashes[i].hash).result
                <=> q = hashes[i].password
    /\ resp.op = "verify_password"
          => /\ resp.raised = None
             /\ \A i \in 1 .. Len(hashes) :
                   resp.hashed_password = hashes[i].hash
                      => (resp.result
                             <=> resp.plain_password = hashes[i].password)
             /\ resp.hashed_password \in MalformedHashes => ~resp.result

\* the same password was hashed twice and verified against the second hash
C25_Witness ==
    /\ Len(hashes) = 2
    /\ hashes[1].password = hashes[2].password
    /\ resp.op = "verify_password"
    /\ resp.hashed_password = hashes[2].hash
    /\ resp.plain_password = hashes[2].password
    /\ resp.result


---------------------------------------------------------------------------
\* C26: in every state, a transcription with status submitted has a
\* dictation with status completed, and a transcription with status
\* approved has a dictation with status reviewed.
C26_TranscriptionAndDictationAgree ==
    \A t \in TRows :
       /\ transcriptions[t].status = "submitted"
             => dictations[transcriptions[t].dictation_id].status
                   = "completed"
       /\ transcriptions[t].status = "approved"
             => dictations[transcriptions[t].dictation_id].status
                   = "reviewed"


---------------------------------------------------------------------------
\* C27: when update_transcription or submit_transcription succeeds for a
\* secretary, the dictation of the transcription is held by that secretary
\* (its secretary_id is the caller), also after an unclaim or another
\* secretary's claim.
C27_EditAndSubmitByHolder ==
    [][/\ Succeeded("update_transcription")'
          => \A u \in Users, t \in TRows, c \in Contents, a \in BOOLEAN :
                update_transcription(u, t, c, a)
                   => dictations[transcriptions[t].dictation_id].secretary_id
                         = u
       /\ Succeeded("submit_transcription")'
          => \A u \in Users, t \in TRows :
                submit_transcription(u, t)
                   => dictations[transcriptions[t].dictation_id].secretary_id
                         = u]_vars


---------------------------------------------------------------------------
\* C28: a transcription with status approved keeps its status, content,
\* reviewer_id and review_notes through every request.
C28_ApprovedIsTerminal ==
    [][\A t \in TRows :
          transcriptions[t].status = "approved"
             => /\ transcriptions'[t].status = "approved"
                /\ transcriptions'[t].content = transcriptions[t].content
                /\ transcriptions'[t].reviewer_id
                      = transcriptions[t].reviewer_id
                /\ transcriptions'[t].review_notes
                      = transcriptions[t].review_notes]_vars

\* the author of an approved transcription asked to submit it again and
\* was refused
C28_Witness ==
    /\ resp.op = "submit_transcription"
    /\ resp.code = HTTP_400_BAD_REQUEST
    /\ \E t \in TRows : transcriptions[t].status = "approved"


---------------------------------------------------------------------------
\* C29: a dictation with deleted_at set keeps its status, secretary_id and
\* completed_at through every request: claim, unclaim, update and delete
\* of it fail (not found, or forbidden for the caller's role), and submit
\* and review of its transcription do not write to it.
C29_DeletedIsFrozen ==
    [][\A d \in Rows :
          dictations[d].deleted_at # NULL
             => /\ dictations'[d].status = dictations[d].status
                /\ dictations'[d].secretary_id = dictations[d].secretary_id
                /\ dictations'[d].completed_at = dictations[d].completed_at
                /\ resp'.op \in {"claim_dictation", "unclaim_dictation",
                                 "update_dictation", "delete_dictation"}
                      => resp'.code \in {HTTP_404_NOT_FOUND,
                                         HTTP_403_FORBIDDEN}]_vars


---------------------------------------------------------------------------
\* C30: in every state, also of behaviours where an owner's delete and a
\* secretary's claim of the same pending dictation are interleaved, no
\* dictation has deleted_at set and status in_progress.
C30_NeverDeletedAndInProgress ==
    \A d \in Rows :
       ~(/\ dictations[d].deleted_at # NULL
         /\ dictations[d].status = "in_progress")

===========================================================================
